---- MODULE Spec2Model ----
(***************************************************************************)
(* Verification model of the continuous detection pipeline of the          *)
(* AgriGuard prototype: PestDetectionService (model loading, score         *)
(* reconciliation, continuous scanning) as found under src/.               *)
(*                                                                         *)
(* Conventions                                                             *)
(*  - a JavaScript string is a tuple of one-character strings;             *)
(*  - a probability is an integer number of thousandths (0..1000), so that *)
(*    Math.round(p * 100) is a real rounding;                              *)
(*  - array indexes are 0-based as in the source, -1 is indexOf's miss;    *)
(*  - NaN and undefined are explicit values with JavaScript's comparison   *)
(*    rules (every ordering comparison with NaN is false).                 *)
(***************************************************************************)
EXTENDS Integers, Sequences, FiniteSets, TLC

VARIABLES
    \* ---- inputs and output of one application of a pure function
    rScores,      \* raw score vector returned by model.predict(..).dataSync()
    rLabels,      \* this.labels, as loaded from metadata.json
    rDetections,  \* predictions returned by the remote localizer
    rOp,          \* which function was applied ("none" before)
    rResult,      \* the DetectionResult it built
    rSpecies,     \* what databaseManager.getPestSpeciesByName finds for the label
    rRecs,        \* the recommendations of the result
    rBoxes,       \* the boundingBoxes of the result
    \* ---- PestDetectionService (src/services/PestDetectionService.ts, first class)
    platform,               \* Platform.OS: "web" or "native"
    sourceReady,            \* cameraRef.current is set / a <video> element exists
    tfInitialized,          \* this.tfInitialized
    initializationPromise,  \* this.initializationPromise: "null", "pending", "fulfilled"
    initProcs,              \* running bodies of initializeTensorFlow
    model,                  \* this.model: 0 is null, n > 0 the n-th instance loaded
    labels,                 \* this.labels
    modelLoadPromise,       \* this.modelLoadPromise: "null", "pending", "fulfilled"
    loadProcs,              \* running bodies of loadModel
    loadsStarted,           \* tf.loadLayersModel calls made so far
    isScanning,             \* this.isScanning
    isProcessing,           \* this.isProcessing
    scanningInterval,       \* this.scanningInterval: 0 is null, else a timer id
    cameraRef,              \* this.cameraRef: "undefined", "null" or "ref"
    liveTimers,             \* the setInterval timers not yet cleared
    scanTensors,            \* tensors allocated by the native scan loop and not disposed
    starts,                 \* suspended startContinuousScanning calls
    iters,                  \* scan iterations (interval callbacks) and how they ended
    detectionCallbacks,     \* this.detectionCallbacks
    lastDispatch,           \* the last fan-out of a result to the callbacks
    \* ---- PestDetectionService, second class of the same file (local detector)
    model2,                 \* this.model: 0 is null, n > 0 the instance loaded by call n
    labels2,                \* this.labels
    calls2,                 \* analyzeImage calls in progress
    \* ---- usePestDetection (src/hooks/usePestDetection.ts)
    hookIsScanning,         \* the isScanning state of the hook
    cocoModel,              \* the cocoModel state: the local detector is loaded
    intervalHandle,         \* the scanning effect's interval is live (running)
    loopRuns,               \* invocations of runLoop in progress
    hookTensors,            \* tensors allocated by runLoop and not disposed
    handled,                \* the last call of handleDetection
    \* ---- usePestScanner (src/hooks/usePestScanner.ts)
    scannerIsScanning,      \* the isScanning state of the hook
    scannerCoco,            \* the cocoModel state: the local detector is loaded
    scannerHandle,          \* the scanning effect's interval is live
    scannerRun,             \* the invocation of loop in progress, or how the last one went
    \* ---- usePestScanner, setTimeout-chained variant (src/unnamed/part_007)
    chainIsScanning,        \* the isScanning state and isScanningRef.current
    chainCoco,              \* the cocoModel state: the local detector is loaded
    chainProcessing,        \* isProcessingRef.current
    chainCurrent,           \* the chain of the live effect instance, 0 if it has none
    chains,                 \* per chain: "none", "timer" (timeout pending), "scan"
    \* ---- ScheduleProvider (src/context/ScheduleContext.tsx)
    schedules,              \* the schedules state
    schedulesAdded,         \* schedules added so far (each gets a new id)
    \* ---- ScheduleMonitoringService (src/services/NotificationService.ts)
    isMonitoring,           \* this.isMonitoring
    monitoringInterval,     \* this.monitoringInterval is set (the interval is live)
    lastCheckedMinute,      \* this.lastCheckedMinute
    monitored,              \* the schedules array startMonitoring was called with
    clock,                  \* the time of day, in half minutes after midnight
    triggered,              \* per schedule id: calls of triggerSchedule since monitoring started
    hookSchedules,          \* the schedules useScheduleMonitoring was rendered with last
    \* ---- MQTTService and its client (src/unnamed/part_001)
    connected,              \* this.client.connected (the client object exists with it)
    subscribed,             \* the status topic is in this.client.subscriptions
    timeoutTimer,           \* the device timeout timer is pending
    deviceStatus,           \* this.deviceStatus: online and currentAction
    autoOffTimer,           \* this.autoOffTimer: the handle it holds, 0 for null
    offTimers,              \* the auto-off timers that are pending
    offCallbacks,           \* the fired auto-off timers whose callback awaits its publish
    sprayPending,           \* the calls of sendSprayCommand that await their publish
    isScheduledSpray,       \* this.isScheduledSpray
    lastCommand,            \* the last message published on the command topic
    scheduledOn,            \* a scheduled start was published and no "0" since
    sprayCalls,             \* calls of sendSprayCommand so far
    \* ---- NotificationService (src/services/NotificationService.ts), native
    isInitialized,          \* this.isInitialized
    scheduledNotifications, \* this.scheduledNotifications: schedule id -> notification id, 0 for none
    osScheduled,            \* the notifications pending in the OS: notification id and schedule id
    notificationsIssued,    \* notification ids handed out by the OS so far
    updateCalls,            \* the calls of updateScheduleNotifications under way
    \* ---- analyzeImage and storage
    rStored,                \* the records analyzeImage added with addPestDetection
    \* ---- usePestDetection backed by the service (src/unnamed/part_004, part_005)
    backedMounted,          \* the component using the hook is mounted
    backedIsScanning        \* the isScanning state of the hook

reconVars == <<rScores, rLabels, rDetections, rOp, rResult, rSpecies, rRecs, rBoxes>>
loadVars == <<tfInitialized, initializationPromise, initProcs, model, labels,
              modelLoadPromise, loadProcs, loadsStarted>>
scanVars == <<isScanning, isProcessing, scanningInterval, cameraRef, liveTimers, scanTensors,
              starts, iters, detectionCallbacks, lastDispatch>>
envVars == <<platform, sourceReady>>
vars2 == <<model2, labels2, calls2>>
hookVars == <<hookIsScanning, cocoModel, intervalHandle, loopRuns, hookTensors, handled>>
scannerVars == <<scannerIsScanning, scannerCoco, scannerHandle, scannerRun>>
chainVars == <<chainIsScanning, chainCoco, chainProcessing, chainCurrent, chains>>
scheduleVars == <<schedules, schedulesAdded>>
monitorVars == <<isMonitoring, monitoringInterval, lastCheckedMinute, monitored, clock, triggered,
                 hookSchedules>>
mqttVars == <<connected, subscribed, timeoutTimer, deviceStatus, autoOffTimer, offTimers,
              offCallbacks, sprayPending, isScheduledSpray, lastCommand, scheduledOn, sprayCalls>>
notifyVars == <<isInitialized, scheduledNotifications, osScheduled, notificationsIssued, updateCalls>>
analyzeVars == <<rStored>>
backedVars == <<backedMounted, backedIsScanning>>
appVars == <<scannerVars, chainVars, scheduleVars, monitorVars, mqttVars, notifyVars, analyzeVars,
             backedVars>>

(***************************************************************************)
(* Bounds                                                                  *)
(***************************************************************************)
MaxLen == 3          \* longest score vector / prediction list drawn
MaxStarts == 2       \* startContinuousScanning calls suspended at one time
MaxIters == 2        \* scan iterations unresolved at one time
MaxTimers == 2       \* interval timers live at one time
MaxProcs == 2        \* bodies of initializeTensorFlow / loadModel running at one time
MaxLoads == 2        \* tf.loadLayersModel calls in one run
MaxCalls == 2        \* analyzeImage calls in progress at one time
MaxRuns == 2         \* runLoop invocations in progress at one time
MaxRegions == 2      \* qualifying regions the local detector returns for a frame
MaxHookTensors == 2  \* tensors of runLoop live at one time
MaxScanTensors == 14 \* tensors of the native scan loop live at one time
MaxDetections == 3  \* detections the local detector returns for a frame
MaxChains == 3      \* setTimeout chains of the scanner alive at one time
MaxSchedules == 2   \* schedules in the list at one time
MaxAdded == 3       \* schedules added in one run
MaxClock == 966     \* the run ends at 8:03, in half minutes after midnight
MaxTriggers == 3    \* triggers of one schedule in one run
MaxSprayCalls == 3  \* calls of sendSprayCommand in one run
MaxUpdates == 2     \* calls of updateScheduleNotifications under way at once
MaxNotifications == 3 \* notifications scheduled with the OS in one run
MaxScheduleId == 2  \* schedule ids in the lists passed to updateScheduleNotifications
MaxAnalyzeLen == 2  \* scores in the vectors analyzeImage is applied to

(***************************************************************************)
(* JavaScript values                                                       *)
(***************************************************************************)
NaN == -1000000
Undefined == <<"undefined">>
EmptyString == <<>>

UpperCase == <<"A","B","C","D","E","F","G","H","I","J","K","L","M",
               "N","O","P","Q","R","S","T","U","V","W","X","Y","Z">>
LowerCase == <<"a","b","c","d","e","f","g","h","i","j","k","l","m",
               "n","o","p","q","r","s","t","u","v","w","x","y","z">>

toLowerCaseChar(c) ==
    IF \E i \in 1..26 : UpperCase[i] = c
    THEN LowerCase[CHOOSE i \in 1..26 : UpperCase[i] = c]
    ELSE c

\* String.prototype.toLowerCase
toLowerCase(s) == [i \in 1..Len(s) |-> toLowerCaseChar(s[i])]

\* String.prototype.includes
includes(s, sub) ==
    \E i \in 0..(Len(s) - Len(sub)) : SubSeq(s, i + 1, i + Len(sub)) = sub

\* ordering comparisons and subtraction with NaN
Lt(a, b) == a # NaN /\ b # NaN /\ a < b
Ge(a, b) == a # NaN /\ b # NaN /\ a >= b
Sub(a, b) == IF a = NaN \/ b = NaN THEN NaN ELSE a - b

\* p[i] for a 0-based index, undefined (NaN once used as a number) outside
ScoreAt(p, i) == IF i >= 0 /\ i < Len(p) THEN p[i + 1] ELSE NaN

\* a property of a parsed JSON object is present (neither null nor undefined)
Has(obj, field) == field \in DOMAIN obj

\* labels[i] ?? fallback
LabelAt(lbls, i, fallback) ==
    IF i >= 0 /\ i < Len(lbls) THEN lbls[i + 1] ELSE fallback

\* Math.round(p * 100) for p in thousandths: halves round up
RoundPercent(p) == IF p = NaN THEN NaN ELSE (p + 5) \div 10

\* predictions.indexOf(Math.max(...predictions)): first index of the maximum,
\* -1 for an empty vector (Math.max() is -Infinity, found nowhere)
IndexOfMax(p) ==
    IF Len(p) = 0 THEN -1
    ELSE LET m == CHOOSE v \in {p[i] : i \in 1..Len(p)} :
                      \A i \in 1..Len(p) : p[i] <= v
         IN  (CHOOSE i \in 1..Len(p) :
                 p[i] = m /\ \A j \in 1..(i - 1) : p[j] # m) - 1

\* [...predictions].sort((a, b) => b - a)
RECURSIVE InsertDesc(_, _)
InsertDesc(x, s) ==
    IF s = <<>> THEN <<x>>
    ELSE IF x > Head(s) THEN <<x>> \o s
    ELSE <<Head(s)>> \o InsertDesc(x, Tail(s))

RECURSIVE SortDesc(_)
SortDesc(p) == IF p = <<>> THEN <<>> ELSE InsertDesc(Head(p), SortDesc(Tail(p)))

(***************************************************************************)
(* Labels and thresholds                                                   *)
(***************************************************************************)
NoPestText == <<"n","o"," ","p","e","s","t">>
Unknown == <<"U","n","k","n","o","w","n">>

LikelyNoiseConfidence == 90
LikelyNoiseMargin == 10
NativeScanConfidence == 75

\* pestLabel.toLowerCase().includes('no pest')
isNoPestMutant(pestLabel) == includes(pestLabel, NoPestText)
isNoPest(pestLabel) == includes(toLowerCase(pestLabel), NoPestText)

\* confidence < 90 || diff < 10
likelyNoiseMutantConfidence(confidence, diff) ==
    Lt(confidence, NativeScanConfidence) \/ Lt(diff, LikelyNoiseMargin)
likelyNoiseMutantMargin(confidence, diff) ==
    Lt(confidence, LikelyNoiseConfidence)
likelyNoise(confidence, diff) ==
    Lt(confidence, LikelyNoiseConfidence) \/ Lt(diff, LikelyNoiseMargin)

(***************************************************************************)
(* PestDetectionService.aiDetection, from the prediction on: the verdict   *)
(* for a score vector under the loaded labels.                             *)
(***************************************************************************)
aiDetection(predictions, lbls) ==
    LET maxIndex == IndexOfMax(predictions)
        pestLabel == LabelAt(lbls, maxIndex, Unknown)
        confidence == RoundPercent(ScoreAt(predictions, maxIndex))
        sorted == SortDesc(predictions)
        secondConfidence == RoundPercent(ScoreAt(sorted, 1))
        diff == Sub(confidence, secondConfidence)
    IN  IF isNoPest(pestLabel) \/ likelyNoise(confidence, diff)
        THEN [detected |-> FALSE, pestType |-> EmptyString,
              confidence |-> confidence, index |-> maxIndex]
        ELSE [detected |-> TRUE, pestType |-> pestLabel,
              confidence |-> confidence, index |-> maxIndex]

(***************************************************************************)
(* The verdict of one native continuous-scan iteration (interval callback  *)
(* of startNativeScanning) for the score vector of its frame.              *)
(***************************************************************************)
nativeScanVerdict(predictions, lbls) ==
    LET maxIndex == IndexOfMax(predictions)
        pestLabel == LabelAt(lbls, maxIndex, Unknown)
        confidence == RoundPercent(ScoreAt(predictions, maxIndex))
    IN  IF Ge(confidence, NativeScanConfidence) /\ ~isNoPest(pestLabel)
        THEN [detected |-> TRUE, pestType |-> pestLabel,
              confidence |-> confidence, index |-> maxIndex]
        ELSE [detected |-> FALSE, pestType |-> Undefined,
              confidence |-> confidence, index |-> maxIndex]

(***************************************************************************)
(* The result a web continuous-scan iteration builds from the remote       *)
(* localizer's prediction list (startWebScanning): the first prediction    *)
(* decides, its confidence is passed on as received.                       *)
(***************************************************************************)
webScanResult(detections) ==
    [detected |-> Len(detections) > 0,
     confidence |-> IF Len(detections) > 0 /\ Has(detections[1], "confidence")
                    THEN detections[1].confidence ELSE 0,
     pestType |-> IF Len(detections) > 0 /\ Has(detections[1], "class")
                  THEN detections[1].class ELSE EmptyString,
     index |-> -1]

(***************************************************************************)
(* The result the remote-localizer analyzeImage builds from the prediction *)
(* list: as the web scan, with the confidence rounded to a percentage.     *)
(***************************************************************************)
remoteAnalyzeResult(detections) ==
    [detected |-> Len(detections) > 0,
     confidence |-> IF Len(detections) > 0
                       /\ Has(detections[1], "confidence")
                       /\ detections[1].confidence # 0
                    THEN RoundPercent(detections[1].confidence) ELSE 0,
     pestType |-> IF Len(detections) > 0 /\ Has(detections[1], "class")
                  THEN detections[1].class ELSE EmptyString,
     index |-> -1]

(***************************************************************************)
(* boundingBoxes of the web scan result and of the remote analyzeImage:    *)
(* each prediction's centre-form box mapped to its top-left form.  Lengths *)
(* are in half pixels, so that half of a whole-pixel width is exact.       *)
(***************************************************************************)
\* d.confidence, d.class: undefined when the prediction lacks the field
fieldOf(d, field) == IF Has(d, field) THEN d[field] ELSE Undefined

topLeftMutant(d) ==
    [x |-> d.x - d.width, y |-> d.y - d.height,
     width |-> d.width, height |-> d.height,
     confidence |-> fieldOf(d, "confidence"), class |-> fieldOf(d, "class")]
topLeft(d) ==
    [x |-> d.x - d.width \div 2, y |-> d.y - d.height \div 2,
     width |-> d.width, height |-> d.height,
     confidence |-> fieldOf(d, "confidence"), class |-> fieldOf(d, "class")]

\* detections.map(d => ...)
boundingBoxes(detections) == [i \in 1..Len(detections) |-> topLeft(detections[i])]

(***************************************************************************)
(* Recommendations: the catalog entry's treatment text split at ". ", or   *)
(* what each path puts in its place.                                       *)
(***************************************************************************)
\* the index of the first occurrence of sep in s from position i on, 0 if none
RECURSIVE indexOfFrom(_, _, _)
indexOfFrom(s, sep, i) ==
    IF i + Len(sep) - 1 > Len(s) THEN 0
    ELSE IF SubSeq(s, i, i + Len(sep) - 1) = sep THEN i
    ELSE indexOfFrom(s, sep, i + 1)

\* String.prototype.split with a non-empty separator
RECURSIVE split(_, _)
split(s, sep) ==
    LET k == indexOfFrom(s, sep, 1)
    IN  IF k = 0 THEN <<s>>
        ELSE <<SubSeq(s, 1, k - 1)>> \o split(SubSeq(s, k + Len(sep), Len(s)), sep)

DotSpace == <<".", " ">>
ContinueMonitoring == <<"C","o","n","t","i","n","u","e"," ","m","o","n","i","t","o","r","i","n","g">>
NoImmediateAction == <<"N","o"," ","i","m","m","e","d","i","a","t","e"," ","a","c","t","i","o","n"," ","r","e","q","u","i","r","e","d">>
ApplyTreatment == <<"A","p","p","l","y"," ","t","r","e","a","t","m","e","n","t">>
ApplyAppropriateTreatment == <<"A","p","p","l","y"," ","a","p","p","r","o","p","r","i","a","t","e"," ","t","r","e","a","t","m","e","n","t">>
MonitorAffectedAreas == <<"M","o","n","i","t","o","r"," ","a","f","f","e","c","t","e","d"," ","a","r","e","a","s">>

\* getPestSpeciesByName found no entry
NullSpecies == [null |-> TRUE]

\* recommendations of aiDetection (first class)
aiRecommendations(verdict, species) ==
    IF ~verdict.detected THEN <<ContinueMonitoring>>
    ELSE IF Has(species, "treatment") THEN split(species.treatment, DotSpace)
    ELSE <<ApplyTreatment>>

\* recommendations of aiDetection (second class)
aiRecommendations2(verdict, species) ==
    IF ~verdict.detected THEN <<ContinueMonitoring, NoImmediateAction>>
    ELSE IF Has(species, "treatment") THEN split(species.treatment, DotSpace)
    ELSE <<ApplyAppropriateTreatment, MonitorAffectedAreas>>

\* recommendations of a native continuous-scan iteration
nativeRecommendations(verdict, species) ==
    IF verdict.detected /\ Has(species, "treatment")
    THEN split(species.treatment, DotSpace)
    ELSE <<>>

\* the number a result's confidence holds, in thousandths of a unit: the paths
\* that round hold a whole percentage, the web scan passes the probability on
\* as it was received
ConfidenceMilli(op, c) ==
    IF op = "webScan" THEN c
    ELSE IF c = NaN THEN NaN
    ELSE c * 1000

(***************************************************************************)
(* Inputs drawn for the pure functions                                     *)
(***************************************************************************)
Rat == <<"R","a","t">>
Snail == <<"S","n","a","i","l">>
NoPestLower == <<"n","o"," ","p","e","s","t">>
NoPestTitle == <<"N","o"," ","P","e","s","t">>
NoPestUpper == <<"N","O"," ","P","E","S","T","S">>

\* thousandths around the thresholds: 894 -> 89, 895 -> 90, 904 -> 90,
\* 805 -> 81, 804 -> 80, 745 -> 75
ScoreVals == {50, 745, 804, 805, 894, 895, 904}

RECURSIVE SeqsUpTo(_, _)
SeqsUpTo(S, n) ==
    IF n = 0 THEN {<<>>}
    ELSE LET shorter == SeqsUpTo(S, n - 1)
         IN  shorter \cup {Append(s, x) : s \in shorter, x \in S}

ScoreVectors == SeqsUpTo(ScoreVals, MaxLen)

LabelLists ==
    { <<Rat, NoPestLower, Snail>>,
      <<NoPestTitle, Rat>>,
      <<Rat, Snail, NoPestUpper>>,
      <<Rat>>,
      <<>> }

\* the labels a list names
LabelSet(lbls) == {lbls[i] : i \in 1..Len(lbls)}

\* geometry in half pixels: a box of 5 x 3 pixels centred at (10, 8), one of
\* 40 x 40 pixels whose centre lies 4 pixels from the origin, one of 1 x 7
\* pixels
RemotePredictions ==
    { [class |-> Rat, confidence |-> 904, x |-> 20, y |-> 16, width |-> 10, height |-> 6],
      [confidence |-> 745, x |-> 8, y |-> 8, width |-> 80, height |-> 80],
      [class |-> Snail, x |-> 60, y |-> 40, width |-> 2, height |-> 14] }

RemoteLists == SeqsUpTo(RemotePredictions, MaxLen)

\* treatment texts: two steps, one step, a text that ends with the separator
TreatmentTexts == { <<"T","r","a","p",".", " ","B","a","i","t">>,
                    <<"T","r","a","p">>,
                    <<"T","r","a","p","."," ">> }

SpeciesLookups == {NullSpecies} \cup {[treatment |-> t] : t \in TreatmentTexts}

NoResult == [detected |-> FALSE, pestType |-> Undefined,
             confidence |-> 0, index |-> -1]

(***************************************************************************)
(* SpecRecon: every input, one application of one function.                *)
(***************************************************************************)
ReconInit ==
    /\ rLabels \in LabelLists
    /\ \/ rScores \in ScoreVectors /\ rDetections = <<>>
       \/ rScores = <<>> /\ rDetections \in RemoteLists
    /\ rSpecies \in SpeciesLookups
    /\ rOp = "none"
    /\ rResult = NoResult
    /\ rRecs = <<>>
    /\ rBoxes = <<>>

ApplyAiDetection ==
    /\ rOp = "none"
    /\ rOp' = "aiDetection"
    /\ rResult' = aiDetection(rScores, rLabels)
    /\ rRecs' = aiRecommendations(aiDetection(rScores, rLabels), rSpecies)
    /\ rBoxes' = <<>>
    /\ UNCHANGED <<rScores, rLabels, rDetections, rSpecies>>
    /\ UNCHANGED <<loadVars, scanVars, envVars, vars2, hookVars, appVars>>

\* aiDetection of the second class: the same verdict, its own recommendations
ApplyAiDetection2 ==
    /\ rOp = "none"
    /\ rOp' = "aiDetection2"
    /\ rResult' = aiDetection(rScores, rLabels)
    /\ rRecs' = aiRecommendations2(aiDetection(rScores, rLabels), rSpecies)
    /\ rBoxes' = <<>>
    /\ UNCHANGED <<rScores, rLabels, rDetections, rSpecies>>
    /\ UNCHANGED <<loadVars, scanVars, envVars, vars2, hookVars, appVars>>

ApplyNativeScan ==
    /\ rOp = "none"
    /\ rOp' = "nativeScan"
    /\ rResult' = nativeScanVerdict(rScores, rLabels)
    /\ rRecs' = nativeRecommendations(nativeScanVerdict(rScores, rLabels), rSpecies)
    /\ rBoxes' = <<>>
    /\ UNCHANGED <<rScores, rLabels, rDetections, rSpecies>>
    /\ UNCHANGED <<loadVars, scanVars, envVars, vars2, hookVars, appVars>>

ApplyWebScan ==
    /\ rOp = "none"
    /\ rOp' = "webScan"
    /\ rResult' = webScanResult(rDetections)
    /\ rRecs' = <<>>
    /\ rBoxes' = boundingBoxes(rDetections)
    /\ UNCHANGED <<rScores, rLabels, rDetections, rSpecies>>
    /\ UNCHANGED <<loadVars, scanVars, envVars, vars2, hookVars, appVars>>

ApplyRemoteAnalyze ==
    /\ rOp = "none"
    /\ rOp' = "remoteAnalyze"
    /\ rResult' = remoteAnalyzeResult(rDetections)
    /\ rRecs' = <<>>
    /\ rBoxes' = boundingBoxes(rDetections)
    /\ UNCHANGED <<rScores, rLabels, rDetections, rSpecies>>
    /\ UNCHANGED <<loadVars, scanVars, envVars, vars2, hookVars, appVars>>

ReconNext ==
    \/ ApplyAiDetection
    \/ ApplyAiDetection2
    \/ ApplyNativeScan
    \/ ApplyWebScan
    \/ ApplyRemoteAnalyze

(***************************************************************************)
(* Reference quantities of the reconciliation claims, computed from the    *)
(* input alone.                                                            *)
(***************************************************************************)
MaxScore(p) == CHOOSE v \in {p[i] : i \in 1..Len(p)} : \A i \in 1..Len(p) : p[i] <= v

\* the highest score among the entries other than the winning one; 0 when
\* there is no other entry
SecondScore(p) ==
    LET w == IndexOfMax(p) + 1
        others == {p[i] : i \in (1..Len(p)) \ {w}}
    IN  IF others = {} THEN 0
        ELSE CHOOSE v \in others : \A x \in others : x <= v

ArgmaxPercent(p) == RoundPercent(MaxScore(p))
MarginPercent(p) == ArgmaxPercent(p) - RoundPercent(SecondScore(p))

\* the winning class has a label
HasWinningLabel == Len(rScores) > 0 /\ IndexOfMax(rScores) < Len(rLabels)
WinningLabel == rLabels[IndexOfMax(rScores) + 1]
SentinelLabels == {NoPestLower, NoPestTitle, NoPestUpper}

\* C7: every score vector whose argmax confidence, as a rounded percentage, is
\* below 90 is reconciled by aiDetection to detected = false, whatever the
\* margin and the winning label.
C7_Below90Rejected ==
    (rOp = "aiDetection" /\ Len(rScores) > 0 /\ ArgmaxPercent(rScores) < 90)
        => ~rResult.detected

\* a vector rejected by the confidence rule alone: 89 percent, a wide margin
\* and a pest label
C7_Witness ==
    /\ rOp = "aiDetection"
    /\ HasWinningLabel /\ WinningLabel = Rat
    /\ ArgmaxPercent(rScores) = 89
    /\ MarginPercent(rScores) >= 10
    /\ ~rResult.detected

\* C8: every score vector whose argmax percentage exceeds the second-highest
\* percentage by less than 10 is reconciled by aiDetection to detected = false,
\* also when the argmax confidence is 90 or more.
C8_NarrowMarginRejected ==
    (rOp = "aiDetection" /\ Len(rScores) > 0 /\ MarginPercent(rScores) < 10)
        => ~rResult.detected

\* a vector rejected by the margin rule alone: 90 percent against 81
C8_Witness ==
    /\ rOp = "aiDetection"
    /\ HasWinningLabel /\ WinningLabel = Rat
    /\ Len(rScores) >= 2
    /\ ArgmaxPercent(rScores) >= 90
    /\ MarginPercent(rScores) = 9
    /\ ~rResult.detected

\* C9: when the winning label contains "no pest" in any letter case the result
\* is detected = false, whatever the confidence and the margin, in aiDetection
\* and in the native continuous-scan iteration.
C9_SentinelRejected ==
    (rOp \in {"aiDetection", "nativeScan"}
       /\ HasWinningLabel /\ WinningLabel \in SentinelLabels)
        => ~rResult.detected

\* a capitalised sentinel label winning with 90 percent and a wide margin
C9_Witness ==
    /\ rOp \in {"aiDetection", "nativeScan"}
    /\ HasWinningLabel /\ WinningLabel \in {NoPestTitle, NoPestUpper}
    /\ ArgmaxPercent(rScores) >= 90
    /\ MarginPercent(rScores) >= 10
    /\ ~rResult.detected

\* C10: every result with detected = true carries a non-empty pestType that is
\* one of the loaded labels and not the "no pest" sentinel, for every score
\* vector (empty ones and ones whose argmax has no label included) and every
\* remote prediction list.
C10_DetectedHasTaxonomyType ==
    (rOp # "none" /\ rResult.detected)
        => /\ rResult.pestType # EmptyString
           /\ rResult.pestType \in LabelSet(rLabels)
           /\ rResult.pestType \notin SentinelLabels

\* C21: for every remote prediction in centre form the bounding box of the
\* result is its top-left form: the box extends half its width and half its
\* height either side of the centre, width and height are passed on
\* unchanged, on the web scan and on the remote analyzeImage.
C21_BoxIsTopLeftForm ==
    rOp \in {"webScan", "remoteAnalyze"}
        => /\ Len(rBoxes) = Len(rDetections)
           /\ \A i \in 1..Len(rDetections) :
                /\ rBoxes[i].width = rDetections[i].width
                /\ rBoxes[i].height = rDetections[i].height
                /\ 2 * rBoxes[i].x + rBoxes[i].width = 2 * rDetections[i].x
                /\ 2 * rBoxes[i].y + rBoxes[i].height = 2 * rDetections[i].y

\* a full list whose boxes include one of odd pixel width that reaches left
\* of the origin
C21_Witness ==
    /\ rOp \in {"webScan", "remoteAnalyze"}
    /\ Len(rBoxes) = MaxLen
    /\ \E i \in 1..Len(rBoxes) : rBoxes[i].x < 0
    /\ \E i \in 1..Len(rBoxes) : rBoxes[i].width % 4 = 2

\* C26: a raw score vector with fewer than 2 entries makes aiDetection fail:
\* it never yields a DetectionResult, in particular none with detected = true.
C26_ShortVectorFails ==
    ~(rOp \in {"aiDetection", "aiDetection2"} /\ Len(rScores) < 2)

\* the stronger half of C26 alone: no short vector is reported as a detection
ShortVectorNeverDetected ==
    (rOp \in {"aiDetection", "aiDetection2"} /\ Len(rScores) < 2) => ~rResult.detected

\* an accepted verdict: 90 percent or more, a margin of 10 or more, a label
\* that is not the sentinel
AcceptedVerdict ==
    /\ HasWinningLabel /\ WinningLabel \notin SentinelLabels
    /\ ArgmaxPercent(rScores) >= 90
    /\ MarginPercent(rScores) >= 10

\* the steps of the treatment texts drawn, written out
ExpectedSteps(text) ==
    IF text = <<"T","r","a","p",".", " ","B","a","i","t">>
    THEN << <<"T","r","a","p">>, <<"B","a","i","t">> >>
    ELSE IF text = <<"T","r","a","p">> THEN << <<"T","r","a","p">> >>
    ELSE << <<"T","r","a","p">>, <<>> >>

\* C11: for every accepted verdict the recommendations are the catalog entry's
\* treatment text split into steps when the label is in the catalog, and the
\* two-item fallback ("Apply appropriate treatment", "Monitor affected areas")
\* when it is not, in aiDetection of either class and in the native scan loop.
C11_RecommendationsFromCatalog ==
    (rOp \in {"aiDetection", "aiDetection2", "nativeScan"} /\ AcceptedVerdict)
        => rRecs = IF Has(rSpecies, "treatment")
                   THEN ExpectedSteps(rSpecies.treatment)
                   ELSE <<ApplyAppropriateTreatment, MonitorAffectedAreas>>

\* the same for aiDetection of the second class alone
RecommendationsSecondClass ==
    (rOp = "aiDetection2" /\ AcceptedVerdict)
        => rRecs = IF Has(rSpecies, "treatment")
                   THEN ExpectedSteps(rSpecies.treatment)
                   ELSE <<ApplyAppropriateTreatment, MonitorAffectedAreas>>

\* C19: for every score vector and label list the verdict of the native
\* continuous-scan iteration equals the verdict aiDetection gives for the same
\* scores.
C19_ScanLoopVerdictEqualsSingleShot ==
    (rOp = "nativeScan" /\ Len(rScores) > 0)
        => rResult.detected = aiDetection(rScores, rLabels).detected

\* the probability the result's confidence is derived from
WinningProbability ==
    IF rOp \in {"webScan", "remoteAnalyze"}
    THEN rDetections[1].confidence
    ELSE MaxScore(rScores)

\* the result was built from an input that carries a probability
HasProbability ==
    IF rOp \in {"webScan", "remoteAnalyze"}
    THEN Len(rDetections) > 0 /\ Has(rDetections[1], "confidence")
    ELSE rOp # "none" /\ Len(rScores) > 0

\* C20: on every path the confidence of a result is the winning probability
\* scaled to a whole percentage between 0 and 100.
C20_ConfidenceIsPercentage ==
    HasProbability =>
        LET m == ConfidenceMilli(rOp, rResult.confidence)
        IN  /\ m # NaN
            /\ m % 1000 = 0
            /\ m \div 1000 \in 0..100
            /\ m \div 1000 = RoundPercent(WinningProbability)

vars == <<reconVars, loadVars, scanVars, envVars, vars2, hookVars, appVars>>

(***************************************************************************)
(* PestDetectionService: model loading and continuous scanning.            *)
(*                                                                         *)
(* An async function runs atomically from one await to the next.  A caller *)
(* awaiting a promise is parked ("awaitInit", "awaitLoad"); settling the   *)
(* promise marks every parked caller ("initOk"/"initErr", "loadOk"/        *)
(* "loadErr") and each resumes in a step of its own.                       *)
(***************************************************************************)
Callbacks == {"cb1", "cb2"}

\* what the scanned scene can produce
ScanLabels == <<Rat, NoPestTitle>>
ScanFrames == {<<904, 50>>, <<50, 904>>}
ScanDetections == {<<>>, <<[class |-> Rat, confidence |-> 904]>>}

\* rank: the place of the iteration's frame among the frames captured and not
\* yet resolved (0: no frame yet); late: the event of a frame captured after
\* this one has been dispatched already
IdleIter == [pc |-> "idle", result |-> NoResult, rank |-> 0, late |-> FALSE]
\* attempts: the attempts the running sequence has begun
IdleInit == [pc |-> "idle", retries |-> 0, attempts |-> 0]
\* no call of addPestDetection came before the fan-out
NoRecord == [none |-> TRUE]

\* record: the detection record added to storage before the fan-out
NoDispatch == [seq |-> 0, result |-> NoResult, received |-> <<>>, threw |-> FALSE,
               record |-> NoRecord]

EnvInit ==
    /\ platform \in {"web", "native"}
    /\ sourceReady = TRUE

\* nothing initialized, nothing loaded: the service as constructed
FreshLoadState ==
    /\ tfInitialized = FALSE
    /\ initializationPromise = "null"
    /\ initProcs = [i \in 1..MaxProcs |-> IdleInit]
    /\ model = 0
    /\ labels = <<>>
    /\ modelLoadPromise = "null"
    /\ loadProcs = [i \in 1..MaxProcs |-> "idle"]
    /\ loadsStarted = 0

\* the service after one successful loadModel
LoadedState ==
    /\ tfInitialized = (platform = "native")
    /\ initializationPromise = "fulfilled"
    /\ initProcs = [i \in 1..MaxProcs |-> IdleInit]
    /\ model = 1
    /\ labels = ScanLabels
    /\ modelLoadPromise = "fulfilled"
    /\ loadProcs = [i \in 1..MaxProcs |-> "idle"]
    /\ loadsStarted = 1

IdleScanState ==
    /\ isScanning = FALSE
    /\ isProcessing = FALSE
    /\ scanningInterval = 0
    /\ cameraRef = "undefined"
    /\ liveTimers = {}
    /\ scanTensors = 0
    /\ starts = [i \in 1..MaxStarts |-> "idle"]
    /\ iters = [i \in 1..MaxIters |-> IdleIter]
    /\ detectionCallbacks = <<>>
    /\ lastDispatch = NoDispatch

IdleCall2 == [pc |-> "idle", got |-> 0, failed |-> FALSE, outcome |-> "none",
              stored |-> FALSE]

Init2 ==
    /\ model2 = 0
    /\ labels2 = <<>>
    /\ calls2 = [c \in 1..MaxCalls |-> IdleCall2]

IdleRun == [pc |-> "idle", left |-> 0, classified |-> FALSE]
NotHandled == [seq |-> 0, detected |-> FALSE]

HookInit ==
    /\ hookIsScanning = FALSE
    /\ cocoModel = FALSE
    /\ intervalHandle = FALSE
    /\ loopRuns = [r \in 1..MaxRuns |-> IdleRun]
    /\ hookTensors = 0
    /\ handled = NotHandled

\* usePestScanner before its first scan
IdleScannerRun == [pc |-> "idle", localized |-> FALSE, detections |-> <<>>,
                   at |-> 0, classified |-> <<>>]

ScannerInit ==
    /\ scannerIsScanning = FALSE
    /\ scannerCoco = FALSE
    /\ scannerHandle = FALSE
    /\ scannerRun = IdleScannerRun

\* the setTimeout-chained usePestScanner before its first scan
ChainInit ==
    /\ chainIsScanning = FALSE
    /\ chainCoco = FALSE
    /\ chainProcessing = FALSE
    /\ chainCurrent = 0
    /\ chains = [c \in 1..MaxChains |-> "none"]

\* ScheduleProvider: useState([])
ScheduleInit ==
    /\ schedules = <<>>
    /\ schedulesAdded = 0

\* the run of the schedule monitor begins at 7:58, in half minutes after midnight
ClockStart == 956
MonitoredIds == 1..4

MonitorInit ==
    /\ isMonitoring = FALSE
    /\ monitoringInterval = FALSE
    /\ lastCheckedMinute = -1
    /\ monitored = <<>>
    /\ clock = ClockStart
    /\ triggered = [id \in MonitoredIds |-> 0]
    /\ hookSchedules = <<>>

MqttInit ==
    /\ connected = FALSE
    /\ subscribed = FALSE
    /\ timeoutTimer = FALSE
    /\ deviceStatus = [online |-> FALSE, currentAction |-> "idle"]
    /\ autoOffTimer = 0
    /\ offTimers = {}
    /\ offCallbacks = {}
    /\ sprayPending = {}
    /\ isScheduledSpray = FALSE
    /\ lastCommand = "none"
    /\ scheduledOn = FALSE
    /\ sprayCalls = 0

NotifiedIds == 1..MaxScheduleId
IdleUpdate == [pc |-> "idle", list |-> <<>>, at |-> 0, found |-> [id \in NotifiedIds |-> 0]]

NotifyInit ==
    /\ isInitialized = FALSE
    /\ scheduledNotifications = [id \in NotifiedIds |-> 0]
    /\ osScheduled = {}
    /\ notificationsIssued = 0
    /\ updateCalls = [u \in 1..MaxUpdates |-> IdleUpdate]

AnalyzeInit == rStored = <<>>

BackedInit == backedMounted = FALSE /\ backedIsScanning = FALSE

AppInit ==
    /\ ScannerInit /\ ChainInit /\ ScheduleInit /\ MonitorInit /\ MqttInit /\ NotifyInit
    /\ AnalyzeInit /\ BackedInit

ServiceInit == EnvInit /\ FreshLoadState /\ IdleScanState /\ Init2 /\ HookInit /\ AppInit

ReconIdle ==
    /\ rScores = <<>>
    /\ rLabels = <<>>
    /\ rDetections = <<>>
    /\ rSpecies = NullSpecies
    /\ rOp = "none"
    /\ rResult = NoResult
    /\ rRecs = <<>>
    /\ rBoxes = <<>>

\* lowest free slot of a table of program counters / of records with a pc
FreePc(f) == CHOOSE i \in DOMAIN f : f[i] = "idle" /\ \A j \in 1..(i - 1) : f[j] # "idle"
HasFreePc(f) == \E i \in DOMAIN f : f[i] = "idle"
FreeRec(f) == CHOOSE i \in DOMAIN f : f[i].pc = "idle" /\ \A j \in 1..(i - 1) : f[j].pc # "idle"
HasFreeRec(f) == \E i \in DOMAIN f : f[i].pc = "idle"
FreeTimer == CHOOSE t \in (1..MaxTimers) \ liveTimers :
                 \A u \in (1..MaxTimers) \ liveTimers : t <= u

\* every caller parked on a promise learns how it settled
Wake(f, parked, now) == [k \in DOMAIN f |-> IF f[k] = parked THEN now ELSE f[k]]

(***************************************************************************)
(* initializeTensorFlow                                                    *)
(***************************************************************************)
\* a call starts a sequence of its own whenever TensorFlow is not initialized
initializeStartsSequenceMutant == ~tfInitialized

\* the guards of initializeTensorFlow: a new initialization sequence starts only
\* when none is recorded and TensorFlow is not initialized
initializeStartsSequence == initializationPromise = "null" /\ ~tfInitialized

\* the synchronous part of a call of initializeTensorFlow
initializeTensorFlow ==
    IF initializeStartsSequence
    THEN /\ HasFreeRec(initProcs)
         /\ initializationPromise' = "pending"
         /\ initProcs' = [initProcs EXCEPT ![FreeRec(initProcs)] =
                [pc |-> "attempt", retries |-> IF platform = "web" THEN 0 ELSE 3,
                 attempts |-> 1]]
    ELSE UNCHANGED <<initializationPromise, initProcs>>

\* where the caller of initializeTensorFlow stands after the call
InitAwaitPc ==
    IF initializationPromise = "fulfilled"
          \/ (initializationPromise = "null" /\ tfInitialized)
    THEN "initOk" ELSE "awaitInit"

\* one attempt (tf.ready, the settling wait, setBackend, tf.ready) ends
InitAttemptDone(i, ok) ==
    /\ initProcs[i].pc = "attempt"
    /\ IF ok
       THEN /\ tfInitialized' = (IF platform = "web" THEN tfInitialized ELSE TRUE)
            /\ initializationPromise' = "fulfilled"
            /\ initProcs' = [initProcs EXCEPT ![i] = IdleInit]
            /\ starts' = Wake(starts, "awaitInit", "initOk")
            /\ loadProcs' = Wake(loadProcs, "awaitInit", "initOk")
       ELSE IF platform # "web" /\ initProcs[i].retries - 1 > 0
       THEN /\ initProcs' = [initProcs EXCEPT ![i] =
                    [pc |-> "backoff", retries |-> initProcs[i].retries - 1,
                     attempts |-> initProcs[i].attempts]]
            /\ UNCHANGED <<tfInitialized, initializationPromise, starts, loadProcs>>
       ELSE /\ initializationPromise' = "null"
            /\ tfInitialized' = FALSE
            /\ initProcs' = [initProcs EXCEPT ![i] = IdleInit]
            /\ starts' = Wake(starts, "awaitInit", "initErr")
            /\ loadProcs' = Wake(loadProcs, "awaitInit", "initErr")
    /\ UNCHANGED <<model, labels, modelLoadPromise, loadsStarted>>
    /\ UNCHANGED <<isScanning, isProcessing, scanningInterval, cameraRef, liveTimers, scanTensors,
                   iters, detectionCallbacks, lastDispatch>>
    /\ UNCHANGED <<envVars, reconVars, vars2, hookVars, appVars>>

\* the wait between two attempts is over
InitBackoffDone(i) ==
    /\ initProcs[i].pc = "backoff"
    /\ initProcs' = [initProcs EXCEPT ![i].pc = "attempt",
                                      ![i].attempts = initProcs[i].attempts + 1]
    /\ UNCHANGED <<tfInitialized, initializationPromise, model, labels,
                   modelLoadPromise, loadProcs, loadsStarted>>
    /\ UNCHANGED <<scanVars, envVars, reconVars, vars2, hookVars, appVars>>

(***************************************************************************)
(* loadModel                                                               *)
(***************************************************************************)
\* the guards of loadModel: a new load starts only when no model is held and no
\* load is recorded
loadStartsLoad == model = 0 /\ modelLoadPromise = "null"

\* the synchronous part of a call of loadModel; the body of a new load runs up
\* to its await of initializeTensorFlow
loadModel ==
    IF loadStartsLoad
    THEN /\ HasFreePc(loadProcs)
         /\ modelLoadPromise' = "pending"
         /\ initializeTensorFlow
         /\ loadProcs' = [loadProcs EXCEPT ![FreePc(loadProcs)] = InitAwaitPc]
    ELSE UNCHANGED <<modelLoadPromise, initializationPromise, initProcs, loadProcs>>

\* where the caller of loadModel stands after the call
LoadAwaitPc ==
    IF model # 0 \/ modelLoadPromise = "fulfilled" THEN "loadOk" ELSE "awaitLoad"

\* the catch block of the load: the model and the recorded promise are dropped,
\* every waiter is rejected
LoadFails(l) ==
    /\ model' = 0
    /\ modelLoadPromise' = "null"
    /\ loadProcs' = [loadProcs EXCEPT ![l] = "idle"]
    /\ starts' = Wake(starts, "awaitLoad", "loadErr")
    /\ UNCHANGED <<labels, loadsStarted>>

\* the load resumes after initializeTensorFlow and starts its settling wait
LoadAfterInit(l) ==
    /\ loadProcs[l] \in {"initOk", "initErr"}
    /\ IF loadProcs[l] = "initOk"
       THEN /\ loadProcs' = [loadProcs EXCEPT ![l] = "wait"]
            /\ UNCHANGED <<model, labels, modelLoadPromise, loadsStarted, starts>>
       ELSE LoadFails(l)
    /\ UNCHANGED <<tfInitialized, initializationPromise, initProcs>>
    /\ UNCHANGED <<isScanning, isProcessing, scanningInterval, cameraRef, liveTimers, scanTensors,
                   iters, detectionCallbacks, lastDispatch>>
    /\ UNCHANGED <<envVars, reconVars, vars2, hookVars, appVars>>

\* the wait is over: the model files are requested (tf.loadLayersModel)
LoadWaited(l) ==
    /\ loadProcs[l] = "wait"
    /\ loadsStarted < MaxLoads
    /\ loadProcs' = [loadProcs EXCEPT ![l] = "loadLayers"]
    /\ loadsStarted' = loadsStarted + 1
    /\ UNCHANGED <<tfInitialized, initializationPromise, initProcs, model, labels,
                   modelLoadPromise>>
    /\ UNCHANGED <<scanVars, envVars, reconVars, vars2, hookVars, appVars>>

\* tf.loadLayersModel settles: this.model is assigned before the labels are
\* fetched
LoadLayersDone(l, ok) ==
    /\ loadProcs[l] = "loadLayers"
    /\ IF ok
       THEN /\ model' = loadsStarted
            /\ loadProcs' = [loadProcs EXCEPT ![l] = "fetchMeta"]
            /\ UNCHANGED <<labels, modelLoadPromise, loadsStarted, starts>>
       ELSE LoadFails(l)
    /\ UNCHANGED <<tfInitialized, initializationPromise, initProcs>>
    /\ UNCHANGED <<isScanning, isProcessing, scanningInterval, cameraRef, liveTimers, scanTensors,
                   iters, detectionCallbacks, lastDispatch>>
    /\ UNCHANGED <<envVars, reconVars, vars2, hookVars, appVars>>

\* the metadata fetch settles: the labels are set and the load resolves
LoadMetaDone(l, ok) ==
    /\ loadProcs[l] = "fetchMeta"
    /\ IF ok
       THEN /\ labels' = ScanLabels
            /\ modelLoadPromise' = "fulfilled"
            /\ loadProcs' = [loadProcs EXCEPT ![l] = "idle"]
            /\ starts' = Wake(starts, "awaitLoad", "loadOk")
            /\ UNCHANGED <<model, loadsStarted>>
       ELSE LoadFails(l)
    /\ UNCHANGED <<tfInitialized, initializationPromise, initProcs>>
    /\ UNCHANGED <<isScanning, isProcessing, scanningInterval, cameraRef, liveTimers, scanTensors,
                   iters, detectionCallbacks, lastDispatch>>
    /\ UNCHANGED <<envVars, reconVars, vars2, hookVars, appVars>>

(***************************************************************************)
(* addDetectionCallback / removeDetectionCallback                          *)
(***************************************************************************)
InList(list, c) == \E i \in 1..Len(list) : list[i] = c

RECURSIVE Without(_, _)
Without(list, c) ==
    IF list = <<>> THEN <<>>
    ELSE IF Head(list) = c THEN Without(Tail(list), c)
    ELSE <<Head(list)>> \o Without(Tail(list), c)

addDetectionCallback(c) ==
    /\ detectionCallbacks' =
          IF InList(detectionCallbacks, c) THEN detectionCallbacks
          ELSE Append(detectionCallbacks, c)
    /\ UNCHANGED <<isScanning, isProcessing, scanningInterval, cameraRef, liveTimers, scanTensors,
                   starts, iters, lastDispatch>>
    /\ UNCHANGED <<loadVars, envVars, reconVars, vars2, hookVars, appVars>>

removeDetectionCallback(c) ==
    /\ detectionCallbacks' = Without(detectionCallbacks, c)
    /\ UNCHANGED <<isScanning, isProcessing, scanningInterval, cameraRef, liveTimers, scanTensors,
                   starts, iters, lastDispatch>>
    /\ UNCHANGED <<loadVars, envVars, reconVars, vars2, hookVars, appVars>>

(***************************************************************************)
(* The fan-out of a result.  `throwers` are the callbacks that throw when  *)
(* called; the value is the list of callbacks that were called.            *)
(***************************************************************************)
FirstThrower(list, throwers) ==
    IF \E i \in 1..Len(list) : list[i] \in throwers
    THEN CHOOSE i \in 1..Len(list) :
            list[i] \in throwers /\ \A j \in 1..(i - 1) : list[j] \notin throwers
    ELSE 0

\* detectionCallbacks.forEach(cb => { try { cb(result) } catch (err) { .. } })
dispatchWeb(list, throwers) == list

\* detectionCallbacks.forEach(cb => cb(result)): the first throw ends the loop
dispatchNative(list, throwers) ==
    IF FirstThrower(list, throwers) = 0 THEN list
    ELSE SubSeq(list, 1, FirstThrower(list, throwers))

Throws(list, throwers) == FirstThrower(list, throwers) # 0

\* the record of a fan-out; seq alternates so that every fan-out is a change
Dispatched(result, received, throwers) ==
    [seq |-> 1 - lastDispatch.seq, result |-> result, received |-> received,
     threw |-> Throws(detectionCallbacks, throwers), record |-> NoRecord]

ThrowerSets == {{}} \cup {{c} : c \in Callbacks}

(***************************************************************************)
(* startContinuousScanning                                                 *)
(***************************************************************************)
\* the call, up to its await of initializeTensorFlow; isScanning is not yet set
startContinuousScanning(withRef) ==
    /\ ~isScanning
    /\ HasFreePc(starts)
    /\ cameraRef' = IF withRef THEN "ref" ELSE cameraRef
    /\ initializeTensorFlow
    /\ starts' = [starts EXCEPT ![FreePc(starts)] = InitAwaitPc]
    /\ UNCHANGED <<tfInitialized, model, labels, modelLoadPromise, loadProcs, loadsStarted>>
    /\ UNCHANGED <<isScanning, isProcessing, scanningInterval, liveTimers, scanTensors, iters,
                   detectionCallbacks, lastDispatch>>
    /\ UNCHANGED <<envVars, reconVars, vars2, hookVars, appVars>>

\* "Already scanning": the call returns at once
startWhileScanning ==
    /\ isScanning
    /\ UNCHANGED vars

\* the call resumes after initializeTensorFlow: it calls loadModel, or gives up
StartAfterInit(s) ==
    /\ starts[s] \in {"initOk", "initErr"}
    /\ IF starts[s] = "initOk"
       THEN /\ loadModel
            /\ starts' = [starts EXCEPT ![s] = LoadAwaitPc]
       ELSE /\ starts' = [starts EXCEPT ![s] = "idle"]
            /\ UNCHANGED <<modelLoadPromise, initializationPromise, initProcs, loadProcs>>
    /\ UNCHANGED <<tfInitialized, model, labels, loadsStarted>>
    /\ UNCHANGED <<isScanning, isProcessing, scanningInterval, cameraRef, liveTimers, scanTensors,
                   iters, detectionCallbacks, lastDispatch>>
    /\ UNCHANGED <<envVars, reconVars, vars2, hookVars, appVars>>

\* startWebScanning creates its timer unconditionally; startNativeScanning only
\* with a camera reference and a model
startCreatesTimer ==
    \/ platform = "web"
    \/ (cameraRef = "ref" /\ sourceReady /\ model # 0)

\* the call resumes after loadModel: isScanning is set and the scanning method
\* chosen, or the call gives up
StartAfterLoad(s) ==
    /\ starts[s] \in {"loadOk", "loadErr"}
    /\ starts' = [starts EXCEPT ![s] = "idle"]
    /\ IF starts[s] = "loadOk"
       THEN /\ isScanning' = TRUE
            /\ IF startCreatesTimer
               THEN /\ liveTimers # 1..MaxTimers
                    /\ scanningInterval' = FreeTimer
                    /\ liveTimers' = liveTimers \cup {FreeTimer}
               ELSE UNCHANGED <<scanningInterval, liveTimers>>
       ELSE UNCHANGED <<isScanning, scanningInterval, liveTimers>>
    /\ UNCHANGED <<isProcessing, cameraRef, scanTensors, iters, detectionCallbacks, lastDispatch>>
    /\ UNCHANGED <<loadVars, envVars, reconVars, vars2, hookVars, appVars>>

(***************************************************************************)
(* stopContinuousScanning                                                  *)
(***************************************************************************)
\* the timers cleared by a stop: the one this.scanningInterval names
stopClears == IF scanningInterval = 0 THEN {} ELSE {scanningInterval}

stopContinuousScanning ==
    /\ isScanning
    /\ isScanning' = FALSE
    /\ isProcessing' = FALSE
    /\ liveTimers' = liveTimers \ stopClears
    /\ scanningInterval' = 0
    /\ cameraRef' = "null"
    /\ UNCHANGED <<starts, scanTensors, iters, detectionCallbacks, lastDispatch>>
    /\ UNCHANGED <<loadVars, envVars, reconVars, vars2, hookVars, appVars>>

stopWhileIdle ==
    /\ ~isScanning
    /\ UNCHANGED vars

(***************************************************************************)
(* The interval callback of startNativeScanning                            *)
(***************************************************************************)
\* a timer fires while an iteration holds the in-flight flag: it returns at once
TickBusy(t) ==
    /\ t \in liveTimers
    /\ isProcessing
    /\ UNCHANGED vars

\* a timer fires: the flag is taken and the frame requested; without a camera
\* the callback ends at once (this.cameraRef is null after a stop, which throws
\* inside the try)
NativeTick(t) ==
    /\ platform = "native"
    /\ t \in liveTimers
    /\ ~isProcessing
    /\ IF cameraRef # "ref" \/ ~sourceReady
       THEN /\ isProcessing' = FALSE
            /\ UNCHANGED iters
       ELSE /\ HasFreeRec(iters)
            /\ iters' = [iters EXCEPT ![FreeRec(iters)] =
                    [IdleIter EXCEPT !.pc = "capture"]]
            /\ isProcessing' = TRUE
    /\ UNCHANGED <<isScanning, scanningInterval, cameraRef, liveTimers, scanTensors, starts,
                   detectionCallbacks, lastDispatch>>
    /\ UNCHANGED <<loadVars, envVars, reconVars, vars2, hookVars, appVars>>

\* the tensors the callback allocates for a frame: decodeJpeg, expandDims,
\* resizeBilinear, toFloat, div, sub and the output of predict; the finally
\* block disposes imageTensor and tensor
TensorsPerFrame == 7
TensorsDisposed == 2

\* the place a frame captured now takes
nextRank == 1 + Cardinality({k \in 1..MaxIters : iters[k].rank > 0})

\* iteration i ends, with or without a dispatch of its event: the frames
\* captured after its own move up, the frames captured before it are late
\* once its event is out
endIteration(i, dispatches) ==
    [k \in 1..MaxIters |->
        IF k = i THEN IdleIter
        ELSE IF iters[k].rank = 0 THEN iters[k]
        ELSE IF iters[i].rank = 0 \/ iters[k].rank < iters[i].rank
        THEN [iters[k] EXCEPT !.late = @ \/ dispatches]
        ELSE [iters[k] EXCEPT !.rank = @ - 1]]

\* the result handed to the callbacks when nothing is detected
notDetected(verdict) ==
    [detected |-> FALSE, pestType |-> Undefined,
     confidence |-> verdict.confidence, index |-> verdict.index]

\* takePictureAsync settles.  outcome: "throws", "noBase64", "decodeThrows" or
\* "frame" with the score vector the model gives for the photo.  A verdict of
\* no detection is dispatched at once; a detection goes on to the catalog.
NativeCaptureDone(i, outcome, frame, throwers) ==
    /\ iters[i].pc = "capture"
    /\ IF outcome \in {"throws", "decodeThrows"}
       THEN /\ iters' = endIteration(i, FALSE)
            /\ isProcessing' = FALSE
            /\ UNCHANGED <<lastDispatch, scanTensors>>
       ELSE IF outcome = "noBase64"
       THEN /\ iters' = endIteration(i, FALSE)
            /\ isProcessing' = FALSE
            /\ UNCHANGED <<lastDispatch, scanTensors>>
       ELSE IF nativeScanVerdict(frame, labels).detected
       THEN /\ scanTensors + TensorsPerFrame <= MaxScanTensors
            /\ scanTensors' = scanTensors + TensorsPerFrame
            /\ iters' = [iters EXCEPT ![i] =
                    [IdleIter EXCEPT !.pc = "lookup", !.rank = nextRank,
                                     !.result = nativeScanVerdict(frame, labels)]]
            /\ UNCHANGED <<isProcessing, lastDispatch>>
       ELSE /\ scanTensors + TensorsPerFrame <= MaxScanTensors
            /\ scanTensors' = scanTensors + TensorsPerFrame - TensorsDisposed
            /\ lastDispatch' =
                    Dispatched(notDetected(nativeScanVerdict(frame, labels)),
                               dispatchNative(detectionCallbacks, throwers), throwers)
            /\ iters' = endIteration(i, TRUE)
            /\ isProcessing' = FALSE
    /\ UNCHANGED <<isScanning, scanningInterval, cameraRef, liveTimers, starts,
                   detectionCallbacks>>
    /\ UNCHANGED <<loadVars, envVars, reconVars, vars2, hookVars, appVars>>

\* databaseManager.getPestSpeciesByName settles
NativeLookupDone(i, ok) ==
    /\ iters[i].pc = "lookup"
    /\ IF ok
       THEN /\ iters' = [iters EXCEPT ![i].pc = "persist"]
            /\ UNCHANGED <<isProcessing, scanTensors>>
       ELSE /\ iters' = endIteration(i, FALSE)
            /\ scanTensors' = scanTensors - TensorsDisposed
            /\ isProcessing' = FALSE
    /\ UNCHANGED <<isScanning, scanningInterval, cameraRef, liveTimers, starts,
                   detectionCallbacks, lastDispatch>>
    /\ UNCHANGED <<loadVars, envVars, reconVars, vars2, hookVars, appVars>>

\* the record of a continuous-scan detection: the fields taken from the result
scanRecord(result) == [pestType |-> result.pestType, confidence |-> result.confidence]

\* the callback goes on past await addPestDetection when it resolved; a
\* rejection leaves the try block
persistedMutant(ok) == TRUE
persisted(ok) == ok

\* databaseManager.addPestDetection settles; the result is dispatched after it
NativePersistDone(i, ok, throwers) ==
    /\ iters[i].pc = "persist"
    /\ IF persisted(ok)
       THEN /\ lastDispatch' =
                    [Dispatched(iters[i].result,
                                dispatchNative(detectionCallbacks, throwers), throwers)
                        EXCEPT !.record = IF ok THEN scanRecord(iters[i].result)
                                          ELSE NoRecord]
            /\ iters' = endIteration(i, TRUE)
       ELSE /\ iters' = endIteration(i, FALSE)
            /\ UNCHANGED lastDispatch
    /\ scanTensors' = scanTensors - TensorsDisposed
    /\ isProcessing' = FALSE
    /\ UNCHANGED <<isScanning, scanningInterval, cameraRef, liveTimers, starts,
                   detectionCallbacks>>
    /\ UNCHANGED <<loadVars, envVars, reconVars, vars2, hookVars, appVars>>

(***************************************************************************)
(* The interval callback of startWebScanning.  In the source the try that  *)
(* opens before the frame is drawn is never closed by a handler: the catch *)
(* and finally close the second try, which opens after response.json().    *)
(* The text is malformed, and what a build makes of it is open: with the   *)
(* handlers on the second try, as written, a rejection of fetch or of      *)
(* response.json() leaves the callback without passing through the finally *)
(* block and the flag stays as it is; with the handlers moved to the first *)
(* try the flag is released.                                               *)
(***************************************************************************)
\* the values the in-flight flag can have after a stage before the second try
\* has thrown
webFlagAfterUncaught == {isProcessing, FALSE}

WebTick(t) ==
    /\ platform = "web"
    /\ t \in liveTimers
    /\ ~isProcessing
    /\ IF ~sourceReady
       THEN /\ isProcessing' = FALSE
            /\ UNCHANGED iters
       ELSE /\ HasFreeRec(iters)
            /\ iters' = [iters EXCEPT ![FreeRec(iters)] =
                    [IdleIter EXCEPT !.pc = "blob", !.rank = nextRank]]
            /\ isProcessing' = TRUE
    /\ UNCHANGED <<isScanning, scanningInterval, cameraRef, liveTimers, scanTensors, starts,
                   detectionCallbacks, lastDispatch>>
    /\ UNCHANGED <<loadVars, envVars, reconVars, vars2, hookVars, appVars>>

\* canvas.toBlob and the FileReader settle (neither promise can reject)
WebBlobDone(i, ok) ==
    /\ iters[i].pc = "blob"
    /\ IF ok
       THEN /\ iters' = [iters EXCEPT ![i].pc = "fetch"]
            /\ UNCHANGED isProcessing
       ELSE /\ iters' = endIteration(i, FALSE)
            /\ isProcessing' = FALSE
    /\ UNCHANGED <<isScanning, scanningInterval, cameraRef, liveTimers, scanTensors, starts,
                   detectionCallbacks, lastDispatch>>
    /\ UNCHANGED <<loadVars, envVars, reconVars, vars2, hookVars, appVars>>

\* the request to the remote localizer settles
WebFetchDone(i, ok) ==
    /\ iters[i].pc = "fetch"
    /\ IF ok
       THEN /\ iters' = [iters EXCEPT ![i].pc = "json"]
            /\ UNCHANGED isProcessing
       ELSE /\ iters' = endIteration(i, FALSE)
            /\ isProcessing' \in webFlagAfterUncaught
    /\ UNCHANGED <<isScanning, scanningInterval, cameraRef, liveTimers, scanTensors, starts,
                   detectionCallbacks, lastDispatch>>
    /\ UNCHANGED <<loadVars, envVars, reconVars, vars2, hookVars, appVars>>

\* response.json() settles; with the predictions the result is built and
\* dispatched inside the second try
WebJsonDone(i, ok, detections, throwers) ==
    /\ iters[i].pc = "json"
    /\ IF ~ok
       THEN /\ iters' = endIteration(i, FALSE)
            /\ isProcessing' \in webFlagAfterUncaught
            /\ UNCHANGED lastDispatch
       ELSE IF ~sourceReady
       THEN /\ iters' = endIteration(i, FALSE)
            /\ isProcessing' = FALSE
            /\ UNCHANGED lastDispatch
       ELSE /\ lastDispatch' =
                    Dispatched(webScanResult(detections),
                               dispatchWeb(detectionCallbacks, throwers), throwers)
            /\ iters' = endIteration(i, TRUE)
            /\ isProcessing' = FALSE
    /\ UNCHANGED <<isScanning, scanningInterval, cameraRef, liveTimers, scanTensors, starts,
                   detectionCallbacks>>
    /\ UNCHANGED <<loadVars, envVars, reconVars, vars2, hookVars, appVars>>

(***************************************************************************)
(* The surroundings: the camera view (or the <video> element) is mounted   *)
(* and unmounted.                                                          *)
(***************************************************************************)
SourceChanges ==
    /\ sourceReady' = ~sourceReady
    /\ UNCHANGED <<platform, loadVars, scanVars, reconVars, vars2, hookVars, appVars>>

(***************************************************************************)
(* Spec: the service under every interleaving of its calls, timer ticks    *)
(* and completions.                                                        *)
(***************************************************************************)
Init == ReconIdle /\ ServiceInit

\* calls of the scan controller
ControlStep ==
    \/ \E withRef \in BOOLEAN : startContinuousScanning(withRef)
    \/ startWhileScanning
    \/ \E s \in 1..MaxStarts : StartAfterInit(s)
    \/ \E s \in 1..MaxStarts : StartAfterLoad(s)
    \/ stopContinuousScanning
    \/ stopWhileIdle

\* progress of initializeTensorFlow and loadModel
LoadStep ==
    \/ \E i \in 1..MaxProcs, ok \in BOOLEAN : InitAttemptDone(i, ok)
    \/ \E i \in 1..MaxProcs : InitBackoffDone(i)
    \/ \E l \in 1..MaxProcs : LoadAfterInit(l)
    \/ \E l \in 1..MaxProcs : LoadWaited(l)
    \/ \E l \in 1..MaxProcs, ok \in BOOLEAN : LoadLayersDone(l, ok)
    \/ \E l \in 1..MaxProcs, ok \in BOOLEAN : LoadMetaDone(l, ok)

\* timer ticks and completions of the stages of an iteration, with the
\* callbacks that throw drawn from throwerSets
ScanStep(throwerSets) ==
    \/ \E t \in 1..MaxTimers : TickBusy(t)
    \/ \E t \in 1..MaxTimers : NativeTick(t)
    \/ \E i \in 1..MaxIters, o \in {"throws", "noBase64", "decodeThrows", "frame"},
          f \in ScanFrames, th \in throwerSets : NativeCaptureDone(i, o, f, th)
    \/ \E i \in 1..MaxIters, ok \in BOOLEAN : NativeLookupDone(i, ok)
    \/ \E i \in 1..MaxIters, ok \in BOOLEAN, th \in throwerSets : NativePersistDone(i, ok, th)
    \/ \E t \in 1..MaxTimers : WebTick(t)
    \/ \E i \in 1..MaxIters, ok \in BOOLEAN : WebBlobDone(i, ok)
    \/ \E i \in 1..MaxIters, ok \in BOOLEAN : WebFetchDone(i, ok)
    \/ \E i \in 1..MaxIters, ok \in BOOLEAN, d \in ScanDetections, th \in throwerSets :
          WebJsonDone(i, ok, d, th)

Next ==
    \/ ControlStep
    \/ LoadStep
    \/ ScanStep({{}})
    \/ SourceChanges

Spec == Init /\ [][Next]_vars

(***************************************************************************)
(* Claims about the scan loop                                              *)
(***************************************************************************)
InFlight == {i \in 1..MaxIters : iters[i].pc # "idle"}

\* C1: under every interleaving of start, stop, timer ticks and completions of
\* awaited stages, at most one scan iteration is unresolved at any time, also
\* after a stop followed by a new start while the old iteration still runs.
C1_AtMostOneIterationInFlight == Cardinality(InFlight) <= 1

\* C2: startContinuousScanning called twice without a stop in between leaves at
\* most one live polling timer, also when the second call arrives while the
\* first still awaits the TensorFlow initialization or the model load.
C2_AtMostOneLiveTimer == Cardinality(liveTimers) <= 1

\* C3: stopContinuousScanning changes nothing when the service is Idle; when it
\* is Scanning, the service is Idle after it and no timer created by an earlier
\* start is still live.
C3_StopLeavesNoTimer ==
    [][ /\ (stopWhileIdle => UNCHANGED vars)
        /\ ((isScanning /\ ~isScanning') => (liveTimers' = {} /\ scanningInterval' = 0))
      ]_vars

\* a stage of a continuous-scan iteration fails: the capture, the decoding or
\* inference, the catalog lookup, the persistence, the remote request or the
\* parsing of its answer
StageFails ==
    \/ \E i \in 1..MaxIters, f \in ScanFrames :
          NativeCaptureDone(i, "throws", f, {}) \/ NativeCaptureDone(i, "decodeThrows", f, {})
    \/ \E i \in 1..MaxIters : NativeLookupDone(i, FALSE)
    \/ \E i \in 1..MaxIters : NativePersistDone(i, FALSE, {})
    \/ \E i \in 1..MaxIters : WebFetchDone(i, FALSE)
    \/ \E i \in 1..MaxIters, d \in ScanDetections : WebJsonDone(i, FALSE, d, {})

\* C5: when a stage of an iteration fails, nothing is dispatched for that tick,
\* the service keeps its state and its timers, and the in-flight flag is
\* released, on the native and on the web path.
C5_FailedStageReleasesFlag ==
    [][ StageFails =>
          /\ lastDispatch' = lastDispatch
          /\ isScanning' = isScanning
          /\ liveTimers' = liveTimers
          /\ ~isProcessing'
      ]_vars

\* C14: every tensor allocated during a scan iteration has been released by
\* the time the iteration ends, on every exit path: with no iteration in
\* flight the scan loop owns no live tensor.
C14_TensorsReleasedAtIterationEnd == InFlight = {} => scanTensors = 0

\* C15: events are delivered in the order in which their frames were captured,
\* across any start and stop sequence: no event is dispatched for a frame
\* after the event of a frame captured later.
C15_EventsInCaptureOrder ==
    [][ \A i \in 1..MaxIters :
          (iters[i].pc # "idle" /\ iters'[i].pc = "idle" /\ lastDispatch' # lastDispatch)
              => ~iters[i].late
      ]_vars

\* C16: a failing model load is retried by loadModel, up to 3 attempts with a
\* wait between them, before the failure reaches the caller: the first failure
\* of tf.loadLayersModel leaves the load in progress.
C16_LoadRetried ==
    [][ \A l \in 1..MaxProcs :
          (loadsStarted = 1 /\ LoadLayersDone(l, FALSE)) => modelLoadPromise' = "pending"
      ]_vars

\* C23: whenever the service is Scanning a polling timer exists, also when no
\* camera reference is available on native.
C23_ScanningHasCadence == isScanning => scanningInterval # 0

\* a start call is told that the initialization or the load it awaits failed
StartLearnsFailure(s) ==
    \/ (starts[s] = "awaitInit" /\ starts'[s] = "initErr")
    \/ (starts[s] = "awaitLoad" /\ starts'[s] = "loadErr")

\* C24: when the TensorFlow initialization or the model load fails inside
\* startContinuousScanning the service is and stays Idle (not scanning, no
\* timer), and the failure is not kept: the recorded promise is dropped, so
\* that a later start makes a fresh attempt.
C24_FailedStartStaysIdle ==
    [][ \A s \in 1..MaxStarts :
          StartLearnsFailure(s)
              => /\ ~isScanning' /\ liveTimers' = {}
                 /\ starts'[s] = "initErr" => initializationPromise' = "null"
                 /\ starts'[s] = "loadErr" => (modelLoadPromise' = "null" /\ model' = 0)
      ]_vars

\* the second half of C24 alone: a failure that reaches a start call is never
\* left recorded, and the failing call itself returns without setting
\* isScanning or creating a timer
FailureIsNotCached ==
    [][ \A s \in 1..MaxStarts :
          /\ StartLearnsFailure(s)
                => /\ starts'[s] = "initErr" => initializationPromise' = "null"
                   /\ starts'[s] = "loadErr" => (modelLoadPromise' = "null" /\ model' = 0)
          /\ (starts[s] \in {"initErr", "loadErr"} /\ starts'[s] = "idle")
                => UNCHANGED <<isScanning, scanningInterval, liveTimers>>
      ]_vars

\* every awaited stage of iteration i has succeeded and the iteration ends
IterationCompletes(i) ==
    \/ \E f \in ScanFrames : NativeCaptureDone(i, "frame", f, {}) /\ iters'[i].pc = "idle"
    \/ NativePersistDone(i, TRUE, {})
    \/ \E d \in ScanDetections : WebJsonDone(i, TRUE, d, {})

\* C25: an iteration in flight when stopContinuousScanning is called is not
\* cancelled: the stop leaves it in flight, and when its stages have succeeded
\* its result is dispatched, once, to the callbacks registered at that time.
C25_InFlightIterationDelivers ==
    [][ /\ (isScanning /\ ~isScanning') => iters' = iters
        /\ \A i \in 1..MaxIters :
              (~isScanning /\ IterationCompletes(i))
                  => /\ lastDispatch' # lastDispatch
                     /\ lastDispatch'.received = detectionCallbacks
      ]_vars

\* the call of the remote localizer fails in a web iteration: the request is
\* rejected or its answer cannot be parsed
LocalizerFails ==
    \/ \E i \in 1..MaxIters : WebFetchDone(i, FALSE)
    \/ \E i \in 1..MaxIters, d \in ScanDetections : WebJsonDone(i, FALSE, d, {})

\* C17: when the localizer's call fails during a continuous-scan iteration the
\* iteration goes on as with zero regions and dispatches its detected = false
\* event.
C17_LocalizerFailureIsZeroRegions ==
    [][ LocalizerFails =>
          /\ lastDispatch' # lastDispatch
          /\ ~lastDispatch'.result.detected
      ]_vars

(***************************************************************************)
(* SpecDispatch: the loaded service with its callback list changing and    *)
(* callbacks that throw.                                                   *)
(***************************************************************************)
DispatchInit == ReconIdle /\ EnvInit /\ LoadedState /\ IdleScanState /\ Init2 /\ HookInit /\ AppInit

DispatchNext ==
    \/ \E withRef \in {TRUE} : startContinuousScanning(withRef)
    \/ \E s \in 1..MaxStarts : StartAfterInit(s)
    \/ \E s \in 1..MaxStarts : StartAfterLoad(s)
    \/ stopContinuousScanning
    \/ ScanStep(ThrowerSets)
    \/ \E c \in Callbacks : addDetectionCallback(c)
    \/ \E c \in Callbacks : removeDetectionCallback(c)

SpecDispatch == DispatchInit /\ [][DispatchNext]_vars

\* C6: when a result is dispatched and one callback throws, every other
\* registered callback still receives the result, on the web path and on the
\* native path.
C6_EveryCallbackReceives ==
    [][ lastDispatch' # lastDispatch => lastDispatch'.received = detectionCallbacks ]_vars

\* how many times callback c stands in a list
Occurrences(list, c) == Cardinality({i \in 1..Len(list) : list[i] = c})

\* C36: addDetectionCallback is idempotent and removeDetectionCallback undoes
\* it: each callback is in the list at most once, a registered callback,
\* however often it was added, receives each dispatched result exactly once,
\* and a callback that is not registered (never added, or removed) receives
\* none.
C36_RegisteredReceiveOnce ==
    [][ /\ \A c \in Callbacks : Occurrences(detectionCallbacks', c) <= 1
        /\ lastDispatch' # lastDispatch
              => \A c \in Callbacks :
                    Occurrences(lastDispatch'.received, c)
                        = IF InList(detectionCallbacks, c) THEN 1 ELSE 0
      ]_vars

\* the part of C36 that holds: no callback is listed twice, none receives a
\* result twice, a callback that is not registered receives none, and when no
\* callback throws every registered callback receives the result
RegisteredReceiveAtMostOnce ==
    [][ /\ \A c \in Callbacks : Occurrences(detectionCallbacks', c) <= 1
        /\ lastDispatch' # lastDispatch
              => \A c \in Callbacks :
                    /\ Occurrences(lastDispatch'.received, c)
                          <= IF InList(detectionCallbacks, c) THEN 1 ELSE 0
                    /\ (~lastDispatch'.threw /\ InList(detectionCallbacks, c))
                          => Occurrences(lastDispatch'.received, c) = 1
      ]_vars

(***************************************************************************)
(* The second PestDetectionService class of the file: analyzeImage runs    *)
(* the local detector, then aiDetection, which calls loadModel.            *)
(***************************************************************************)
\* the guard of this loadModel: the model is loaded when none is held
load2StartsLoad == model2 = 0

\* a call that has ended: how it ended, whether one of its stages had failed
\* and whether it added a detection record
Ended2(call, outcome, failed, stored) ==
    [pc |-> "idle", got |-> 0, failed |-> call.failed \/ failed,
     outcome |-> outcome, stored |-> stored]

\* analyzeImage is called: detectObjects starts
analyzeImage2 ==
    /\ \E c \in 1..MaxCalls : calls2[c].pc = "idle"
    /\ LET c == CHOOSE k \in 1..MaxCalls :
                   calls2[k].pc = "idle" /\ \A j \in 1..(k - 1) : calls2[j].pc # "idle"
       IN  calls2' = [calls2 EXCEPT ![c] = [IdleCall2 EXCEPT !.pc = "detectObjects"]]
    /\ UNCHANGED <<model2, labels2>>
    /\ UNCHANGED <<loadVars, scanVars, envVars, reconVars, hookVars, appVars>>

\* detectObjects settles; aiDetection calls loadModel, which awaits tf.ready()
\* when no model is held and returns the held model otherwise
DetectObjectsDone2(c, ok) ==
    /\ calls2[c].pc = "detectObjects"
    /\ calls2' = [calls2 EXCEPT ![c] =
          IF ~ok THEN Ended2(calls2[c], "rejected", TRUE, FALSE)
          ELSE IF load2StartsLoad THEN [calls2[c] EXCEPT !.pc = "tfReady"]
          ELSE [calls2[c] EXCEPT !.pc = "haveModel", !.got = model2]]
    /\ UNCHANGED <<model2, labels2>>
    /\ UNCHANGED <<loadVars, scanVars, envVars, reconVars, hookVars, appVars>>

\* tf.ready() settles (outside the try: a failure rejects the call); the model
\* files are requested
TfReadyDone2(c, ok) ==
    /\ calls2[c].pc = "tfReady"
    /\ calls2' = [calls2 EXCEPT ![c] =
          IF ok THEN [calls2[c] EXCEPT !.pc = "loadLayers"]
          ELSE Ended2(calls2[c], "rejected", TRUE, FALSE)]
    /\ UNCHANGED <<model2, labels2>>
    /\ UNCHANGED <<loadVars, scanVars, envVars, reconVars, hookVars, appVars>>

\* tf.loadLayersModel settles: the model is assigned; on the web the labels are
\* fetched next, on native they are set at once; a failure is logged and
\* loadModel returns this.model as it is
LoadLayersDone2(c, ok) ==
    /\ calls2[c].pc = "loadLayers"
    /\ IF ok /\ platform = "web"
       THEN /\ model2' = c
            /\ calls2' = [calls2 EXCEPT ![c].pc = "fetchMeta"]
            /\ UNCHANGED labels2
       ELSE IF ok
       THEN /\ model2' = c
            /\ labels2' = ScanLabels
            /\ calls2' = [calls2 EXCEPT ![c].pc = "haveModel", ![c].got = c]
       ELSE /\ calls2' = [calls2 EXCEPT ![c].pc = "haveModel", ![c].got = model2,
                                        ![c].failed = TRUE]
            /\ UNCHANGED <<model2, labels2>>
    /\ UNCHANGED <<loadVars, scanVars, envVars, reconVars, hookVars, appVars>>

\* the metadata fetch settles; a failure is logged; loadModel returns this.model
LoadMetaDone2(c, ok) ==
    /\ calls2[c].pc = "fetchMeta"
    /\ labels2' = IF ok THEN ScanLabels ELSE labels2
    /\ calls2' = [calls2 EXCEPT ![c].pc = "haveModel", ![c].got = model2,
                                ![c].failed = calls2[c].failed \/ ~ok]
    /\ UNCHANGED model2
    /\ UNCHANGED <<loadVars, scanVars, envVars, reconVars, hookVars, appVars>>

\* uriToTensor and model.predict end (predict on a null model throws); a
\* verdict of no detection is returned at once, a detection goes on to the
\* catalog
InferDone2(c, ok, frame) ==
    /\ calls2[c].pc = "haveModel"
    /\ calls2' = [calls2 EXCEPT ![c] =
          IF calls2[c].got = 0 \/ ~ok THEN Ended2(calls2[c], "rejected", TRUE, FALSE)
          ELSE IF aiDetection(frame, labels2).detected
          THEN [calls2[c] EXCEPT !.pc = "lookup"]
          ELSE Ended2(calls2[c], "returned", FALSE, FALSE)]
    /\ UNCHANGED <<model2, labels2>>
    /\ UNCHANGED <<loadVars, scanVars, envVars, reconVars, hookVars, appVars>>

\* databaseManager.getPestSpeciesByName settles
LookupDone2(c, ok) ==
    /\ calls2[c].pc = "lookup"
    /\ calls2' = [calls2 EXCEPT ![c] =
          IF ok THEN [calls2[c] EXCEPT !.pc = "persist"]
          ELSE Ended2(calls2[c], "rejected", TRUE, FALSE)]
    /\ UNCHANGED <<model2, labels2>>
    /\ UNCHANGED <<loadVars, scanVars, envVars, reconVars, hookVars, appVars>>

\* databaseManager.addPestDetection settles; the result is returned after it
PersistDone2(c, ok) ==
    /\ calls2[c].pc = "persist"
    /\ calls2' = [calls2 EXCEPT ![c] =
          IF ok THEN Ended2(calls2[c], "returned", FALSE, TRUE)
          ELSE Ended2(calls2[c], "rejected", TRUE, FALSE)]
    /\ UNCHANGED <<model2, labels2>>
    /\ UNCHANGED <<loadVars, scanVars, envVars, reconVars, hookVars, appVars>>

Next2 ==
    \/ analyzeImage2
    \/ \E c \in 1..MaxCalls, ok \in BOOLEAN : DetectObjectsDone2(c, ok)
    \/ \E c \in 1..MaxCalls, ok \in BOOLEAN : TfReadyDone2(c, ok)
    \/ \E c \in 1..MaxCalls, ok \in BOOLEAN : LoadLayersDone2(c, ok)
    \/ \E c \in 1..MaxCalls, ok \in BOOLEAN : LoadMetaDone2(c, ok)
    \/ \E c \in 1..MaxCalls, ok \in BOOLEAN, f \in ScanFrames : InferDone2(c, ok, f)
    \/ \E c \in 1..MaxCalls, ok \in BOOLEAN : LookupDone2(c, ok)
    \/ \E c \in 1..MaxCalls, ok \in BOOLEAN : PersistDone2(c, ok)

LocalInit == ReconIdle /\ ServiceInit

SpecLocal == LocalInit /\ [][Next2]_vars

\* the underlying loads (tf.loadLayersModel) in progress, in either class
LoadsInProgress ==
    Cardinality({l \in 1..MaxProcs : loadProcs[l] = "loadLayers"})
      + Cardinality({c \in 1..MaxCalls : calls2[c].pc = "loadLayers"})

\* C4: loadModel calls issued before the first load has completed share one
\* underlying model load: two loads are never in progress together.
C4_SingleFlight == LoadsInProgress <= 1

\* C13: when a single-shot analyzeImage call fails at a stage (model load,
\* preprocessing, inference, catalog lookup) the call is rejected: it returns
\* no result and adds no detection record.
C13_FailurePropagates ==
    \A c \in 1..MaxCalls :
        calls2[c].failed => (calls2[c].outcome # "returned" /\ ~calls2[c].stored)

\* the same for the first class alone, whose loadModel records its promise
SingleFlightFirstClass ==
    Cardinality({l \in 1..MaxProcs : loadProcs[l] # "idle"}) <= 1

(***************************************************************************)
(* usePestDetection: the continuous scanning effect.  While isScanning is  *)
(* set an interval calls runLoop; runLoop photographs, runs the local      *)
(* detector on the frame and passes every qualifying region to             *)
(* pestDetectionService.analyzeImage.                                      *)
(***************************************************************************)
serviceVars == <<loadVars, scanVars, reconVars, vars2, appVars>>

\* startScanning: isScanning is set and the effect creates its interval
hookStartScanning ==
    /\ ~hookIsScanning
    /\ hookIsScanning' = TRUE
    /\ intervalHandle' = TRUE
    /\ UNCHANGED <<cocoModel, loopRuns, hookTensors, handled>>
    /\ UNCHANGED <<serviceVars, envVars>>

\* stopScanning: the effect's cleanup stops the interval
hookStopScanning ==
    /\ hookIsScanning
    /\ hookIsScanning' = FALSE
    /\ intervalHandle' = FALSE
    /\ UNCHANGED <<cocoModel, loopRuns, hookTensors, handled>>
    /\ UNCHANGED <<serviceVars, envVars>>

\* the initialization effect has loaded the local detector; the scanning
\* effect is run again (cleanup, then a new interval if scanning)
HookCocoLoaded ==
    /\ ~cocoModel
    /\ cocoModel' = TRUE
    /\ intervalHandle' = hookIsScanning
    /\ UNCHANGED <<hookIsScanning, loopRuns, hookTensors, handled>>
    /\ UNCHANGED <<serviceVars, envVars>>

\* the interval fires and calls runLoop, which returns at once without a
\* camera or a detector and photographs otherwise
HookTick ==
    /\ intervalHandle
    /\ IF ~sourceReady \/ ~cocoModel
       THEN UNCHANGED loopRuns
       ELSE /\ HasFreeRec(loopRuns)
            /\ loopRuns' = [loopRuns EXCEPT ![FreeRec(loopRuns)] =
                    [IdleRun EXCEPT !.pc = "capture"]]
    /\ UNCHANGED <<hookIsScanning, cocoModel, intervalHandle, hookTensors, handled>>
    /\ UNCHANGED <<serviceVars, envVars>>

\* takePictureAsync settles.  outcome: "throws", "noPhoto", "noBase64",
\* "decodeThrows", or "frame": the photo is decoded to a tensor and the local
\* detector started on it
HookCaptureDone(r, outcome) ==
    /\ loopRuns[r].pc = "capture"
    /\ IF outcome = "frame"
       THEN /\ hookTensors < MaxHookTensors
            /\ hookTensors' = hookTensors + 1
            /\ loopRuns' = [loopRuns EXCEPT ![r].pc = "detect"]
       ELSE /\ loopRuns' = [loopRuns EXCEPT ![r] = IdleRun]
            /\ UNCHANGED hookTensors
    /\ UNCHANGED <<hookIsScanning, cocoModel, intervalHandle, handled>>
    /\ UNCHANGED <<serviceVars, envVars>>

\* the run goes to the region after this one, or ends with the last
nextRegion(run) ==
    IF run.left > 1 THEN [run EXCEPT !.pc = "crop", !.left = run.left - 1]
    ELSE IdleRun

\* cocoModel.detect settles.  A rejection goes to the catch, past the
\* tf.dispose of the input tensor; otherwise the tensor is disposed and the
\* qualifying regions (score and class accepted) are worked through, runLoop
\* returning when there is none
HookDetectDone(r, ok, regions) ==
    /\ loopRuns[r].pc = "detect"
    /\ IF ~ok
       THEN /\ loopRuns' = [loopRuns EXCEPT ![r] = IdleRun]
            /\ UNCHANGED hookTensors
       ELSE /\ hookTensors' = hookTensors - 1
            /\ loopRuns' = [loopRuns EXCEPT ![r] =
                    IF regions = 0 THEN IdleRun
                    ELSE [loopRuns[r] EXCEPT !.pc = "crop", !.left = regions]]
    /\ UNCHANGED <<hookIsScanning, cocoModel, intervalHandle, handled>>
    /\ UNCHANGED <<serviceVars, envVars>>

\* ImageManipulator.manipulateAsync settles for a region: without a crop the
\* loop continues with the next region, with one analyzeImage is called
HookCropDone(r, outcome) ==
    /\ loopRuns[r].pc = "crop"
    /\ loopRuns' = [loopRuns EXCEPT ![r] =
          IF outcome = "cropped"
          THEN [loopRuns[r] EXCEPT !.pc = "analyze", !.classified = TRUE]
          ELSE nextRegion(loopRuns[r])]
    /\ UNCHANGED <<hookIsScanning, cocoModel, intervalHandle, hookTensors, handled>>
    /\ UNCHANGED <<serviceVars, envVars>>

\* pestDetectionService.analyzeImage settles for a region: a detection is
\* handed to handleDetection, anything else is passed over
HookAnalyzeDone(r, ok, detected) ==
    /\ loopRuns[r].pc = "analyze"
    /\ loopRuns' = [loopRuns EXCEPT ![r] = nextRegion(loopRuns[r])]
    /\ handled' = IF ok /\ detected
                  THEN [seq |-> 1 - handled.seq, detected |-> TRUE]
                  ELSE handled
    /\ UNCHANGED <<hookIsScanning, cocoModel, intervalHandle, hookTensors>>
    /\ UNCHANGED <<serviceVars, envVars>>

\* the camera view is mounted or unmounted under the hook
HookSourceChanges ==
    /\ sourceReady' = ~sourceReady
    /\ UNCHANGED <<platform, serviceVars, hookVars, appVars>>

HookNext ==
    \/ hookStartScanning
    \/ hookStopScanning
    \/ HookCocoLoaded
    \/ HookTick
    \/ \E r \in 1..MaxRuns,
          o \in {"throws", "noPhoto", "noBase64", "decodeThrows", "frame"} :
          HookCaptureDone(r, o)
    \/ \E r \in 1..MaxRuns, ok \in BOOLEAN, n \in 0..MaxRegions : HookDetectDone(r, ok, n)
    \/ \E r \in 1..MaxRuns, o \in {"throws", "noUri", "cropped"} : HookCropDone(r, o)
    \/ \E r \in 1..MaxRuns, ok \in BOOLEAN, d \in BOOLEAN : HookAnalyzeDone(r, ok, d)
    \/ HookSourceChanges

HookStart == ReconIdle /\ ServiceInit

SpecHook == HookStart /\ [][HookNext]_vars

\* the local detector finds no qualifying region in the frame of run r
ZeroRegions(r) == HookDetectDone(r, TRUE, 0)

\* C12: when the localizer returns no qualifying region for a frame the
\* classifier is not invoked for that frame and the iteration produces an event
\* with detected = false.
C12_ZeroRegionsGiveNegativeEvent ==
    [][ \A r \in 1..MaxRuns :
          ZeroRegions(r) =>
              /\ ~loopRuns[r].classified
              /\ handled' # handled
              /\ ~handled'.detected
      ]_vars

\* C18: the invocations of the hook's loop body are strictly sequential: one
\* does not begin before the one before it has resolved.
C18_LoopRunsSequential ==
    Cardinality({r \in 1..MaxRuns : loopRuns[r].pc # "idle"}) <= 1

(***************************************************************************)
(* usePestScanner (src/hooks/usePestScanner.ts): while scanning an         *)
(* interval calls loop, which photographs, runs the local detector and     *)
(* hands the regions it accepts, one after the other, to analyzeImage.     *)
(***************************************************************************)
MinConfidence == 400
allowedCocoClasses == {"bird", "mouse"}

\* det.score < MIN_CONFIDENCE and allowedCocoClasses.has(det.class) of the for loop
Qualifies(det) == ~(det.score < MinConfidence) /\ det.class \in allowedCocoClasses

\* the first detection from position i on that the loop does not skip, 0 if none
RECURSIVE nextQualifying(_, _)
nextQualifying(detections, i) ==
    IF i > Len(detections) THEN 0
    ELSE IF Qualifies(detections[i]) THEN i
    ELSE nextQualifying(detections, i + 1)

\* what cocoModel.detect may return: scores in thousandths either side of the
\* threshold and on it, classes inside and outside the allow-list
CocoDetections ==
    { [score |-> 399, class |-> "bird"],
      [score |-> 400, class |-> "mouse"],
      [score |-> 900, class |-> "person"],
      [score |-> 900, class |-> "bird"] }

CocoLists == SeqsUpTo(CocoDetections, MaxDetections)

scannerOthers == <<reconVars, loadVars, scanVars, vars2, hookVars, chainVars, scheduleVars, monitorVars,
                  mqttVars, notifyVars,
                   analyzeVars, backedVars>>

\* the scanning effect: an interval exists when the hook is scanning with a
\* camera and a detector
scannerEffect(scanning, coco) == scanning /\ sourceReady /\ coco

scannerStartScanning ==
    /\ ~scannerIsScanning
    /\ scannerIsScanning' = TRUE
    /\ scannerHandle' = scannerEffect(TRUE, scannerCoco)
    /\ UNCHANGED <<scannerCoco, scannerRun>>
    /\ UNCHANGED <<scannerOthers, envVars>>

scannerStopScanning ==
    /\ scannerIsScanning
    /\ scannerIsScanning' = FALSE
    /\ scannerHandle' = FALSE
    /\ UNCHANGED <<scannerCoco, scannerRun>>
    /\ UNCHANGED <<scannerOthers, envVars>>

\* the initialization effect has loaded the detector; the scanning effect runs again
ScannerCocoLoaded ==
    /\ ~scannerCoco
    /\ scannerCoco' = TRUE
    /\ scannerHandle' = scannerEffect(scannerIsScanning, TRUE)
    /\ UNCHANGED <<scannerIsScanning, scannerRun>>
    /\ UNCHANGED <<scannerOthers, envVars>>

\* the interval fires and calls loop; without a camera takePictureAsync cannot
\* be called and the catch ends the invocation
ScannerTick ==
    /\ scannerHandle
    /\ scannerRun.pc = "idle"
    /\ scannerRun' = IF sourceReady THEN [IdleScannerRun EXCEPT !.pc = "capture"]
                     ELSE IdleScannerRun
    /\ UNCHANGED <<scannerIsScanning, scannerCoco, scannerHandle>>
    /\ UNCHANGED <<scannerOthers, envVars>>

\* takePictureAsync settles.  outcome: "throws", "noBase64" or "frame"
ScannerCaptureDone(outcome) ==
    /\ scannerRun.pc = "capture"
    /\ scannerRun' = IF outcome = "frame" THEN [scannerRun EXCEPT !.pc = "detect"]
                     ELSE IdleScannerRun
    /\ UNCHANGED <<scannerIsScanning, scannerCoco, scannerHandle>>
    /\ UNCHANGED <<scannerOthers, envVars>>

\* the for loop reaches its next detection from position i on, or its end
scannerGoesOn(run, i) ==
    IF nextQualifying(run.detections, i) = 0
    THEN [run EXCEPT !.pc = "idle", !.at = 0]
    ELSE [run EXCEPT !.pc = "crop", !.at = nextQualifying(run.detections, i)]

\* cocoModel.detect settles; a rejection goes to the catch
ScannerDetectDone(ok, detections) ==
    /\ scannerRun.pc = "detect"
    /\ scannerRun' =
          IF ok
          THEN scannerGoesOn([scannerRun EXCEPT !.localized = TRUE,
                                                !.detections = detections], 1)
          ELSE IdleScannerRun
    /\ UNCHANGED <<scannerIsScanning, scannerCoco, scannerHandle>>
    /\ UNCHANGED <<scannerOthers, envVars>>

\* ImageManipulator.manipulateAsync settles for the detection: analyzeImage is
\* called with the crop; a rejection leaves the for loop for the catch
ScannerCropDone(ok) ==
    /\ scannerRun.pc = "crop"
    /\ scannerRun' =
          IF ok
          THEN [scannerRun EXCEPT !.pc = "analyze",
                                  !.classified = Append(@, scannerRun.at)]
          ELSE [scannerRun EXCEPT !.pc = "idle", !.at = 0]
    /\ UNCHANGED <<scannerIsScanning, scannerCoco, scannerHandle>>
    /\ UNCHANGED <<scannerOthers, envVars>>

\* analyzeImage settles for the detection; a rejection, or onDetect throwing,
\* leaves the for loop for the catch
ScannerAnalyzeDone(ok, onDetectThrows) ==
    /\ scannerRun.pc = "analyze"
    /\ scannerRun' =
          IF ok /\ ~onDetectThrows
          THEN scannerGoesOn(scannerRun, scannerRun.at + 1)
          ELSE [scannerRun EXCEPT !.pc = "idle", !.at = 0]
    /\ UNCHANGED <<scannerIsScanning, scannerCoco, scannerHandle>>
    /\ UNCHANGED <<scannerOthers, envVars>>

ScannerSourceChanges ==
    /\ sourceReady' = ~sourceReady
    /\ UNCHANGED <<platform, scannerOthers, appVars>>

ScannerNext ==
    \/ scannerStartScanning
    \/ scannerStopScanning
    \/ ScannerCocoLoaded
    \/ ScannerTick
    \/ \E o \in {"throws", "noBase64", "frame"} : ScannerCaptureDone(o)
    \/ \E ok \in BOOLEAN, d \in CocoLists : ScannerDetectDone(ok, d)
    \/ \E ok \in BOOLEAN : ScannerCropDone(ok)
    \/ \E ok \in BOOLEAN, t \in BOOLEAN : ScannerAnalyzeDone(ok, t)
    \/ ScannerSourceChanges

ScannerStart == ReconIdle /\ ServiceInit

SpecScanner == ScannerStart /\ [][ScannerNext]_vars

\* the positions of the detections the filter accepts, in detection order
RECURSIVE QualifyingFrom(_, _)
QualifyingFrom(detections, i) ==
    IF i > Len(detections) THEN <<>>
    ELSE IF detections[i].score >= MinConfidence /\ detections[i].class \in allowedCocoClasses
    THEN <<i>> \o QualifyingFrom(detections, i + 1)
    ELSE QualifyingFrom(detections, i + 1)

\* C28: within one iteration of the two-stage hook loop analyzeImage is invoked
\* exactly once for each detection of score at least MIN_CONFIDENCE whose class
\* is in the allow-list, in detection order, and for no other detection.
C28_EveryQualifyingRegionClassified ==
    (scannerRun.pc = "idle" /\ scannerRun.localized)
        => scannerRun.classified = QualifyingFrom(scannerRun.detections, 1)

\* the part of C28 that holds: what is classified is an initial part of the
\* accepted detections, in order, none twice and no other detection
ClassifiedAreQualifying ==
    LET q == QualifyingFrom(scannerRun.detections, 1)
    IN  /\ Len(scannerRun.classified) <= Len(q)
        /\ scannerRun.classified = SubSeq(q, 1, Len(scannerRun.classified))

(***************************************************************************)
(* usePestScanner, the variant of src/unnamed/part_007 whose scanning      *)
(* effect chains setTimeout calls: the callback awaits performScan and     *)
(* then schedules the next timeout while isScanningRef.current is set.     *)
(* The effect's cleanup clears the timeout its chain scheduled last.       *)
(***************************************************************************)
chainOthers == <<reconVars, loadVars, scanVars, vars2, hookVars, scannerVars, scheduleVars, monitorVars,
                  mqttVars, notifyVars,
                   analyzeVars, backedVars>>

\* scheduleNext: a timeout is set while isScanningRef.current is set
scheduleNext(scanning) == IF scanning THEN "timer" ELSE "none"

\* the cleanup of the live effect instance: clearTimeout(timeoutId) removes a
\* pending timeout and does nothing to a callback that is already running
chainCleanup == [c \in 1..MaxChains |->
                    IF c = chainCurrent /\ chains[c] = "timer" THEN "none" ELSE chains[c]]

chainFree(f) == CHOOSE c \in 1..MaxChains : f[c] = "none" /\ \A d \in 1..(c - 1) : f[d] # "none"

\* the effect runs (again) after a render: the cleanup of the instance before
\* it, then a new chain when the hook is scanning with a camera and a detector
chainEffect(scanning, coco) ==
    IF scanning /\ sourceReady /\ coco
    THEN /\ \E c \in 1..MaxChains : chainCleanup[c] = "none"
         /\ chains' = [chainCleanup EXCEPT ![chainFree(chainCleanup)] = scheduleNext(scanning)]
         /\ chainCurrent' = chainFree(chainCleanup)
    ELSE /\ chains' = chainCleanup
         /\ chainCurrent' = 0

chainStartScanning ==
    /\ ~chainIsScanning
    /\ chainIsScanning' = TRUE
    /\ chainEffect(TRUE, chainCoco)
    /\ UNCHANGED <<chainCoco, chainProcessing>>
    /\ UNCHANGED <<chainOthers, envVars>>

chainStopScanning ==
    /\ chainIsScanning
    /\ chainIsScanning' = FALSE
    /\ chainEffect(FALSE, chainCoco)
    /\ UNCHANGED <<chainCoco, chainProcessing>>
    /\ UNCHANGED <<chainOthers, envVars>>

\* the initialization effect has loaded the detector: cocoModel and
\* performScan change and the effect runs again
ChainCocoLoaded ==
    /\ ~chainCoco
    /\ chainCoco' = TRUE
    /\ chainEffect(chainIsScanning, TRUE)
    /\ UNCHANGED <<chainIsScanning, chainProcessing>>
    /\ UNCHANGED <<chainOthers, envVars>>

\* the caller renders with a new onDetect: performScan changes and the effect
\* runs again
ChainPerformScanChanges ==
    /\ chainEffect(chainIsScanning, chainCoco)
    /\ UNCHANGED <<chainIsScanning, chainCoco, chainProcessing>>
    /\ UNCHANGED <<chainOthers, envVars>>

\* performScan returns at once without a camera or a detector or while
\* another call is in progress
performScanReturns == ~sourceReady \/ ~chainCoco \/ chainProcessing

\* a timeout fires: performScan is called and awaited; when it returns at
\* once the next timeout is scheduled right away
ChainTimerFires(c) ==
    /\ chains[c] = "timer"
    /\ IF performScanReturns
       THEN /\ chains' = [chains EXCEPT ![c] = scheduleNext(chainIsScanning)]
            /\ UNCHANGED chainProcessing
       ELSE /\ chains' = [chains EXCEPT ![c] = "scan"]
            /\ chainProcessing' = TRUE
    /\ chainCurrent' = IF chains'[c] = "none" /\ chainCurrent = c THEN 0 ELSE chainCurrent
    /\ UNCHANGED <<chainIsScanning, chainCoco>>
    /\ UNCHANGED <<chainOthers, envVars>>

\* performScan resolves (its finally resets isProcessingRef) and the callback
\* schedules the next timeout
ChainScanDone(c) ==
    /\ chains[c] = "scan"
    /\ chainProcessing' = FALSE
    /\ chains' = [chains EXCEPT ![c] = scheduleNext(chainIsScanning)]
    /\ chainCurrent' = IF chains'[c] = "none" /\ chainCurrent = c THEN 0 ELSE chainCurrent
    /\ UNCHANGED <<chainIsScanning, chainCoco>>
    /\ UNCHANGED <<chainOthers, envVars>>

ChainSourceChanges ==
    /\ sourceReady' = ~sourceReady
    /\ UNCHANGED <<platform, chainOthers, chainVars>>

ChainNext ==
    \/ chainStartScanning
    \/ chainStopScanning
    \/ ChainCocoLoaded
    \/ ChainPerformScanChanges
    \/ \E c \in 1..MaxChains : ChainTimerFires(c)
    \/ \E c \in 1..MaxChains : ChainScanDone(c)
    \/ ChainSourceChanges

ChainStart == ReconIdle /\ ServiceInit

SpecChain == ChainStart /\ [][ChainNext]_vars

\* C27: in the setTimeout-chained usePestScanner at most one scan cadence is
\* live at any time, across effect re-runs and across a stop followed by a
\* start while performScan is in flight: never more than one pending scan
\* timer.
C27_OneScanCadence == Cardinality({c \in 1..MaxChains : chains[c] = "timer"}) <= 1

(***************************************************************************)
(* Schedules: ScheduleProvider (src/context/ScheduleContext.tsx), the      *)
(* setup screen's handleSave (src/app/schedule/setup.tsx) and the time a   *)
(* schedule fires at (parseTimeToMinutes of NotificationService.ts).       *)
(***************************************************************************)
DigitChars == <<"0","1","2","3","4","5","6","7","8","9">>
isDigit(ch) == \E d \in 1..10 : DigitChars[d] = ch
digitValue(ch) == (CHOOSE d \in 1..10 : DigitChars[d] = ch) - 1

\* Number(s) for a string of decimal digits; the empty string is 0, any other
\* text is NaN
RECURSIVE digitsValue(_)
digitsValue(str) ==
    IF str = <<>> THEN 0
    ELSE 10 * digitsValue(SubSeq(str, 1, Len(str) - 1)) + digitValue(str[Len(str)])

Number(str) ==
    IF \A i \in 1..Len(str) : isDigit(str[i]) THEN digitsValue(str) ELSE NaN

Space == <<" ">>
Colon == <<":">>
AM == <<"A","M">>
PM == <<"P","M">>

\* parseTimeToMinutes: "08:00 AM" to minutes after midnight, -1 when hours or
\* minutes are not numbers
parseTimeToMinutes(timeString) ==
    LET parts == split(timeString, Space)
        period == IF Len(parts) >= 2 THEN parts[2] ELSE Undefined
        hm == split(parts[1], Colon)
        hours == Number(hm[1])
        minutes == IF Len(hm) >= 2 THEN Number(hm[2]) ELSE NaN
        totalMinutes == hours * 60 + minutes
    IN  IF hours = NaN \/ minutes = NaN THEN -1
        ELSE IF period = PM /\ hours # 12 THEN totalMinutes + 12 * 60
        ELSE IF period = AM /\ hours = 12 THEN totalMinutes - 12 * 60
        ELSE totalMinutes

\* what the user may type into the time field and select
TimeTexts == { <<"0","8",":","0","0">>, <<"8",":","0","0">>, <<"1","2",":","3","0">> }
Periods == {AM, PM}
DaySets == SUBSET {"Mon", "Tue"}

scheduleOthers == <<reconVars, loadVars, scanVars, vars2, hookVars, scannerVars, chainVars, monitorVars,
                  mqttVars, notifyVars,
                   analyzeVars, backedVars>>

\* existingSchedule.time !== newSchedule.time, then the overlap of the days
isDuplicate(list, time, days, exceptId) ==
    \E i \in 1..Len(list) :
        /\ list[i].id # exceptId
        /\ list[i].time = time
        /\ list[i].days \cap days # {}

\* ScheduleProvider.addSchedule: the list after the call
addSchedule(newSchedule) ==
    IF isDuplicate(schedules, newSchedule.time, newSchedule.days, 0) THEN schedules
    ELSE Append(schedules, [newSchedule EXCEPT !.id = schedulesAdded + 1])

\* ScheduleProvider.updateSchedule: the list after the call
updateSchedule(id, updatedSchedule) ==
    [i \in 1..Len(schedules) |->
        IF schedules[i].id = id THEN [updatedSchedule EXCEPT !.id = id] ELSE schedules[i]]

\* handleSave of the setup screen for a new schedule (id = 0) or for the
\* schedule id being edited
handleSave(id, titleOk, time, period, selectedDays) ==
    LET scheduleTime == time \o Space \o period
        scheduleData == [id |-> 0, time |-> scheduleTime, days |-> selectedDays,
                         active |-> TRUE]
    IN  /\ id = 0 \/ \E i \in 1..Len(schedules) : schedules[i].id = id
        /\ IF ~titleOk \/ selectedDays = {}
                  \/ isDuplicate(schedules, scheduleTime, selectedDays, id)
           THEN UNCHANGED <<schedules, schedulesAdded>>
           ELSE IF id # 0
           THEN /\ schedules' = updateSchedule(id, scheduleData)
                /\ UNCHANGED schedulesAdded
           ELSE /\ Len(schedules) < MaxSchedules
                /\ schedulesAdded < MaxAdded
                /\ schedules' = addSchedule(scheduleData)
                /\ schedulesAdded' = schedulesAdded + 1
        /\ UNCHANGED <<scheduleOthers, envVars>>

toggleSchedule(id) ==
    /\ \E i \in 1..Len(schedules) : schedules[i].id = id
    /\ schedules' = [i \in 1..Len(schedules) |->
            IF schedules[i].id = id THEN [schedules[i] EXCEPT !.active = ~@]
            ELSE schedules[i]]
    /\ UNCHANGED schedulesAdded
    /\ UNCHANGED <<scheduleOthers, envVars>>

deleteSchedule(id) ==
    /\ \E i \in 1..Len(schedules) : schedules[i].id = id
    /\ schedules' = SelectSeq(schedules, LAMBDA sch : sch.id # id)
    /\ UNCHANGED schedulesAdded
    /\ UNCHANGED <<scheduleOthers, envVars>>

ScheduleNext ==
    \/ \E id \in 0..MaxAdded, titleOk \in BOOLEAN, time \in TimeTexts, period \in Periods,
          days \in DaySets : handleSave(id, titleOk, time, period, days)
    \/ \E id \in 1..MaxAdded : toggleSchedule(id)
    \/ \E id \in 1..MaxAdded : deleteSchedule(id)

ScheduleStart == ReconIdle /\ ServiceInit

SpecSchedule == ScheduleStart /\ [][ScheduleNext]_vars

\* two schedules fire together: both are active, their times are the same
\* minute of the day and they share a weekday
FireTogether(a, b) ==
    /\ a.active /\ b.active
    /\ parseTimeToMinutes(a.time) # -1
    /\ parseTimeToMinutes(a.time) = parseTimeToMinutes(b.time)
    /\ a.days \cap b.days # {}

\* C22: after any sequence of add, edit, toggle and delete no two schedules of
\* the list fire at the same time of day on a common weekday, also when the
\* same time was entered in different textual forms.
C22_NoTwoSchedulesFireTogether ==
    \A i, j \in 1..Len(schedules) : i # j => ~FireTogether(schedules[i], schedules[j])

\* the part of C22 that holds: no two schedules of the list carry the same
\* time text on a common weekday
NoTwoSchedulesSameText ==
    \A i, j \in 1..Len(schedules) :
        i # j => ~(schedules[i].time = schedules[j].time
                    /\ schedules[i].days \cap schedules[j].days # {})

(***************************************************************************)
(* ScheduleMonitoringService (src/services/NotificationService.ts): while  *)
(* monitoring an interval of 30 seconds calls checkSchedules, which        *)
(* triggers the schedules that are due.  The day of the run is a Monday.   *)
(***************************************************************************)
monitorOthers == <<reconVars, loadVars, scanVars, vars2, hookVars, scannerVars, chainVars,
                   scheduleVars, mqttVars, notifyVars,
                   analyzeVars, backedVars>>

Today == "Mon"

\* now.getHours() * 60 + now.getMinutes()
currentMinuteNow == clock \div 2

\* the schedule lists the hook is rendered with: one due at 8:00 on Mondays,
\* one due at 8:01, one due on Tuesdays only, one that is not active, and the
\* first schedule after it was deactivated
EightSharp == <<"0","8",":","0","0"," ","A","M">>
EightOhOne == <<"8",":","0","1"," ","A","M">>
MonitorLists ==
    { << [id |-> 1, time |-> EightSharp, days |-> {"Mon"}, active |-> TRUE] >>,
      << [id |-> 1, time |-> EightSharp, days |-> {"Mon"}, active |-> TRUE],
         [id |-> 2, time |-> EightOhOne, days |-> {"Mon", "Tue"}, active |-> TRUE] >>,
      << [id |-> 3, time |-> EightSharp, days |-> {"Tue"}, active |-> TRUE],
         [id |-> 4, time |-> EightSharp, days |-> {"Mon"}, active |-> FALSE] >>,
      << [id |-> 1, time |-> EightSharp, days |-> {"Mon"}, active |-> FALSE],
         [id |-> 2, time |-> EightOhOne, days |-> {"Mon", "Tue"}, active |-> TRUE] >> }

Abs(n) == IF n < 0 THEN -n ELSE n

\* a schedule is due within this many minutes of its time
TriggerTolerance == 1

shouldTriggerSchedule(schedule, currentMinute, currentDayName) ==
    /\ currentDayName \in schedule.days
    /\ parseTimeToMinutes(schedule.time) # -1
    /\ Abs(currentMinute - parseTimeToMinutes(schedule.time)) <= TriggerTolerance

\* the ids of the schedules checkSchedules triggers at this minute
dueNow(list, currentMinute) ==
    {list[i].id : i \in {k \in 1..Len(list) :
        list[k].active /\ shouldTriggerSchedule(list[k], currentMinute, Today)}}

\* checkSchedules, given the minute checked last and the triggers counted so
\* far: triggerSchedule notifies the event callbacks and sends the start
\* command for every schedule that is due
checkSchedules(list, lastChecked, counts) ==
    IF currentMinuteNow = lastChecked
    THEN UNCHANGED <<lastCheckedMinute, triggered>>
    ELSE /\ lastCheckedMinute' = currentMinuteNow
         /\ \A id \in dueNow(list, currentMinuteNow) : counts[id] < MaxTriggers
         /\ triggered' = [id \in MonitoredIds |->
                IF id \in dueNow(list, currentMinuteNow) THEN counts[id] + 1
                ELSE counts[id]]

monitorService == <<isMonitoring, monitoringInterval, lastCheckedMinute, monitored, triggered>>

\* startMonitoring past its early return: the interval is created over the
\* array it was called with, and the schedules are checked at once
beginMonitoring(list) ==
    /\ isMonitoring' = TRUE
    /\ monitoringInterval' = TRUE
    /\ monitored' = list
    /\ checkSchedules(list, -1, [id \in MonitoredIds |-> 0])

startMonitoring(list) ==
    IF isMonitoring THEN UNCHANGED monitorService ELSE beginMonitoring(list)

stopMonitoring ==
    /\ IF ~isMonitoring
       THEN UNCHANGED <<isMonitoring, monitoringInterval>>
       ELSE /\ monitoringInterval' = FALSE
            /\ isMonitoring' = FALSE
    /\ UNCHANGED <<lastCheckedMinute, monitored, triggered>>

\* schedules.filter(s => s.active).length > 0
hasActive(list) == \E i \in 1..Len(list) : list[i].active

\* useScheduleMonitoring is rendered with another schedules array (the MQTT
\* client is connected throughout): the auto-start effect starts monitoring
\* when the hook is not monitoring and a schedule is active
MonitorSchedulesChange(list) ==
    /\ hookSchedules' = list
    /\ IF ~isMonitoring /\ hasActive(list)
       THEN beginMonitoring(list)
       ELSE UNCHANGED monitorService
    /\ UNCHANGED clock
    /\ UNCHANGED <<monitorOthers, envVars>>

\* the startMonitoring the hook returns
hookStartMonitoring ==
    /\ startMonitoring(hookSchedules)
    /\ UNCHANGED <<clock, hookSchedules>>
    /\ UNCHANGED <<monitorOthers, envVars>>

\* the stopMonitoring the hook returns: the service stops, the hook's state
\* becomes false, and the auto-start effect, run again for that change,
\* starts monitoring when a schedule is active
hookStopMonitoring ==
    /\ IF hasActive(hookSchedules)
       THEN beginMonitoring(hookSchedules)
       ELSE stopMonitoring
    /\ UNCHANGED <<clock, hookSchedules>>
    /\ UNCHANGED <<monitorOthers, envVars>>

\* the component unmounts: the cleanup stops monitoring
MonitorUnmount ==
    /\ stopMonitoring
    /\ hookSchedules' = <<>>
    /\ UNCHANGED clock
    /\ UNCHANGED <<monitorOthers, envVars>>

\* the interval fires
MonitorTick ==
    /\ monitoringInterval
    /\ checkSchedules(monitored, lastCheckedMinute, triggered)
    /\ UNCHANGED <<isMonitoring, monitoringInterval, monitored, clock, hookSchedules>>
    /\ UNCHANGED <<monitorOthers, envVars>>

\* half a minute passes
TimePasses ==
    /\ clock < MaxClock
    /\ clock' = clock + 1
    /\ UNCHANGED <<monitorService, hookSchedules>>
    /\ UNCHANGED <<monitorOthers, envVars>>

MonitorNext ==
    \/ \E list \in MonitorLists : MonitorSchedulesChange(list)
    \/ hookStartMonitoring
    \/ hookStopMonitoring
    \/ MonitorUnmount
    \/ MonitorTick
    \/ TimePasses

MonitorStart == ReconIdle /\ ServiceInit

SpecMonitor == MonitorStart /\ [][MonitorNext]_vars

\* C29: while monitoring runs continuously each active schedule is triggered
\* at most once per scheduled occurrence; the run holds one occurrence of
\* every schedule (one Monday morning) and the triggers are counted from the
\* start of monitoring.
C29_TriggeredOncePerOccurrence == \A id \in MonitoredIds : triggered[id] <= 1

\* the part of C29 that holds: within one minute of continuous monitoring no
\* schedule is triggered twice
OncePerMinute ==
    [][ (MonitorTick /\ currentMinuteNow = lastCheckedMinute) => triggered' = triggered ]_vars

\* C32: only schedules that are active in the current schedule list are
\* triggered: a step that triggers a schedule triggers one that is active and
\* due in the list the hook was rendered with last.
C32_TriggersFollowCurrentList ==
    [][ \A id \in MonitoredIds :
          triggered'[id] > triggered[id] => id \in dueNow(hookSchedules', currentMinuteNow) ]_vars

\* the part of C32 that holds: only schedules that were active and due in the
\* list monitoring was started with are triggered
TriggersFollowCapturedList ==
    [][ \A id \in MonitoredIds :
          triggered'[id] > triggered[id] => id \in dueNow(monitored', currentMinuteNow) ]_vars

(***************************************************************************)
(* MQTTService (src/unnamed/part_001): spray commands are published on the *)
(* command topic; a scheduled start arms a timer of 30 seconds that        *)
(* publishes the off command.                                              *)
(***************************************************************************)
mqttOthers == <<reconVars, loadVars, scanVars, vars2, hookVars, scannerVars, chainVars,
                scheduleVars, monitorVars, notifyVars, analyzeVars, backedVars>>

\* updateDeviceStatus: the updates are merged into this.deviceStatus
updateDeviceStatus(status, updates) ==
    [f \in DOMAIN status |-> IF f \in DOMAIN updates THEN updates[f] ELSE status[f]]

\* initialize: connect (returns at once when connected), subscribe to the
\* status topic, resetTimeout; either await may reject and initialize throws
mqttInitialize(connectOk, subscribeOk) ==
    /\ IF ~connected /\ ~connectOk
       THEN UNCHANGED <<connected, subscribed, timeoutTimer>>
       ELSE /\ connected' = TRUE
            /\ subscribed' = TRUE
            /\ timeoutTimer' = IF subscribeOk THEN TRUE ELSE timeoutTimer
    /\ UNCHANGED <<deviceStatus, autoOffTimer, offTimers, offCallbacks, sprayPending,
                   isScheduledSpray, lastCommand, scheduledOn, sprayCalls>>
    /\ UNCHANGED <<mqttOthers, envVars>>

\* disconnect: clears the timeout timer only; the client is disconnected when
\* the unsubscribe before it succeeds
mqttDisconnect(unsubscribeOk) ==
    /\ timeoutTimer' = FALSE
    /\ deviceStatus' = updateDeviceStatus(deviceStatus, [online |-> FALSE])
    /\ IF ~connected
       THEN UNCHANGED <<connected, subscribed>>
       ELSE /\ subscribed' = FALSE
            /\ connected' = IF unsubscribeOk THEN FALSE ELSE connected
    /\ UNCHANGED <<autoOffTimer, offTimers, offCallbacks, sprayPending, isScheduledSpray,
                   lastCommand, scheduledOn, sprayCalls>>
    /\ UNCHANGED <<mqttOthers, envVars>>

\* sendSprayCommand(command, isScheduled) up to its await: it throws when the
\* client is not connected, otherwise the publish is under way
sendSprayCommand(action, isScheduled) ==
    /\ sprayCalls < MaxSprayCalls
    /\ sprayCalls' = sprayCalls + 1
    /\ sprayPending' = IF connected
                       THEN sprayPending \cup
                            {[call |-> sprayCalls + 1, action |-> action,
                              isScheduled |-> isScheduled]}
                       ELSE sprayPending
    /\ UNCHANGED <<connected, subscribed, timeoutTimer, deviceStatus, autoOffTimer, offTimers,
                   offCallbacks, isScheduledSpray, lastCommand, scheduledOn>>
    /\ UNCHANGED <<mqttOthers, envVars>>

\* clearTimeout(this.autoOffTimer): a no-op for null and for a timer that fired
clearAutoOff == offTimers \ {autoOffTimer}

\* sendSprayCommand after its await: a failed publish is rethrown; a scheduled
\* start replaces the auto-off timer, a stop clears it.  The new timer is
\* named after the call that created it.
SprayPublishDone(c, publishOk) ==
    /\ c \in sprayPending
    /\ sprayPending' = sprayPending \ {c}
    /\ IF ~publishOk
       THEN UNCHANGED <<deviceStatus, autoOffTimer, offTimers, isScheduledSpray, lastCommand,
                        scheduledOn>>
       ELSE /\ lastCommand' = IF c.action = "start" THEN "1" ELSE "0"
            /\ deviceStatus' = updateDeviceStatus(deviceStatus,
                    [currentAction |-> IF c.action = "start" THEN "spraying" ELSE "idle"])
            /\ autoOffTimer' = IF c.action = "stop" THEN 0
                               ELSE IF c.isScheduled THEN c.call ELSE autoOffTimer
            /\ offTimers' = IF c.action = "stop" THEN clearAutoOff
                            ELSE IF c.isScheduled THEN clearAutoOff \cup {c.call}
                            ELSE offTimers
            /\ isScheduledSpray' = IF c.action = "stop" THEN FALSE
                                   ELSE IF c.isScheduled THEN TRUE ELSE isScheduledSpray
            /\ scheduledOn' = IF c.action = "stop" THEN FALSE
                              ELSE IF c.isScheduled THEN TRUE ELSE scheduledOn
    /\ UNCHANGED <<connected, subscribed, timeoutTimer, offCallbacks, sprayCalls>>
    /\ UNCHANGED <<mqttOthers, envVars>>

\* an auto-off timer fires: its callback publishes the off command; when the
\* client is not connected the publish throws, the error is logged and the
\* finally block clears the handle and the flag at once
AutoOffFires(t) ==
    /\ t \in offTimers
    /\ offTimers' = offTimers \ {t}
    /\ IF connected
       THEN /\ offCallbacks' = offCallbacks \cup {t}
            /\ UNCHANGED <<autoOffTimer, isScheduledSpray>>
       ELSE /\ autoOffTimer' = 0
            /\ isScheduledSpray' = FALSE
            /\ UNCHANGED offCallbacks
    /\ UNCHANGED <<connected, subscribed, timeoutTimer, deviceStatus, sprayPending, lastCommand,
                   scheduledOn, sprayCalls>>
    /\ UNCHANGED <<mqttOthers, envVars>>

\* the publish of an auto-off callback settles: a failure is logged, and
\* either way the finally block clears the handle and the flag
AutoOffDone(t, publishOk) ==
    /\ t \in offCallbacks
    /\ offCallbacks' = offCallbacks \ {t}
    /\ IF publishOk
       THEN /\ lastCommand' = "0"
            /\ scheduledOn' = FALSE
            /\ deviceStatus' = updateDeviceStatus(deviceStatus, [currentAction |-> "idle"])
       ELSE UNCHANGED <<lastCommand, scheduledOn, deviceStatus>>
    /\ autoOffTimer' = 0
    /\ isScheduledSpray' = FALSE
    /\ UNCHANGED <<connected, subscribed, timeoutTimer, offTimers, sprayPending, sprayCalls>>
    /\ UNCHANGED <<mqttOthers, envVars>>

\* a message arrives on the status topic
handleStatusUpdate(statusValue) ==
    /\ connected /\ subscribed
    /\ IF statusValue = "1"
       THEN /\ deviceStatus' = updateDeviceStatus(deviceStatus,
                    [online |-> TRUE, currentAction |-> "idle"])
            /\ timeoutTimer' = TRUE
       ELSE /\ deviceStatus' = updateDeviceStatus(deviceStatus,
                    [online |-> FALSE, currentAction |-> "error"])
            /\ timeoutTimer' = FALSE
    /\ UNCHANGED <<connected, subscribed, autoOffTimer, offTimers, offCallbacks, sprayPending,
                   isScheduledSpray, lastCommand, scheduledOn, sprayCalls>>
    /\ UNCHANGED <<mqttOthers, envVars>>

\* the device timeout timer fires
DeviceTimeout ==
    /\ timeoutTimer
    /\ timeoutTimer' = FALSE
    /\ deviceStatus' = updateDeviceStatus(deviceStatus,
            [online |-> FALSE, currentAction |-> "error"])
    /\ UNCHANGED <<connected, subscribed, autoOffTimer, offTimers, offCallbacks, sprayPending,
                   isScheduledSpray, lastCommand, scheduledOn, sprayCalls>>
    /\ UNCHANGED <<mqttOthers, envVars>>

SprayCallIds == 1..MaxSprayCalls
SprayCalls == [call : SprayCallIds, action : {"start", "stop"}, isScheduled : BOOLEAN]

MqttNext ==
    \/ \E connectOk, subscribeOk \in BOOLEAN : mqttInitialize(connectOk, subscribeOk)
    \/ \E unsubscribeOk \in BOOLEAN : mqttDisconnect(unsubscribeOk)
    \/ \E action \in {"start", "stop"}, isScheduled \in BOOLEAN :
          sendSprayCommand(action, isScheduled)
    \/ \E c \in SprayCalls, publishOk \in BOOLEAN : SprayPublishDone(c, publishOk)
    \/ \E t \in SprayCallIds : AutoOffFires(t)
    \/ \E t \in SprayCallIds, publishOk \in BOOLEAN : AutoOffDone(t, publishOk)
    \/ \E statusValue \in {"1", "0"} : handleStatusUpdate(statusValue)
    \/ DeviceTimeout

MqttStart == ReconIdle /\ ServiceInit

SpecMqtt == MqttStart /\ [][MqttNext]_vars

\* a pending timer fires and the publish its callback awaits settles
SpecMqttFair ==
    /\ SpecMqtt
    /\ WF_vars(\E t \in SprayCallIds : AutoOffFires(t))
    /\ WF_vars(\E t \in SprayCallIds, publishOk \in BOOLEAN : AutoOffDone(t, publishOk))

\* C30: every scheduled start that sendSprayCommand publishes is eventually
\* followed by a published off command, also in runs where the service is
\* disconnected or the auto-off publish fails.
C30_ScheduledStartIsTurnedOff == scheduledOn ~> ~scheduledOn

\* the part of C30 that holds: a published scheduled start leaves the auto-off
\* timer armed
ScheduledStartArmsTimer ==
    [][ (~scheduledOn /\ scheduledOn') => autoOffTimer' \in offTimers' ]_vars

\* C31: at most one auto-off timer is pending at any time.
C31_OneAutoOffTimer == Cardinality(offTimers) <= 1

\* the part of C31 that holds: the handle, when set, names a timer that is
\* pending or whose callback is still finishing
HandleNamesLiveTimer == autoOffTimer # 0 => autoOffTimer \in offTimers \cup offCallbacks

(***************************************************************************)
(* NotificationService (src/services/NotificationService.ts) on a native   *)
(* platform: updateScheduleNotifications cancels the notifications on      *)
(* record and schedules one per active schedule; useScheduleNotifications  *)
(* calls it on every change of the schedules without awaiting the call     *)
(* before.  The lists hold the ids of the active schedules whose           *)
(* notification time lies in the future.                                   *)
(***************************************************************************)
notifyOthers == <<reconVars, loadVars, scanVars, vars2, hookVars, scannerVars, chainVars,
                  scheduleVars, monitorVars, mqttVars, analyzeVars, backedVars>>

ActiveLists == {<<>>, <<1>>, <<2>>, <<1, 2>>}

\* initialize: isInitialized becomes true whether or not permission is granted
notificationInitialize ==
    /\ ~isInitialized
    /\ isInitialized' = TRUE
    /\ UNCHANGED <<scheduledNotifications, osScheduled, notificationsIssued, updateCalls>>
    /\ UNCHANGED <<notifyOthers, envVars>>

\* Notifications.cancelScheduledNotificationAsync for the ids found
osCancel(pending, ids) == {n \in pending : n.nid \notin ids}

\* this.scheduledNotifications.delete for the schedules whose id was found
deleteFound(map, found) == [id \in NotifiedIds |-> IF found[id] # 0 THEN 0 ELSE map[id]]

\* scheduleNotification for the schedule at position at of the call's list, up
\* to its first await that leaves the call: cancelScheduleNotification reads
\* the map and awaits the OS cancel when an id is on record, otherwise the OS
\* is asked to schedule
enterSchedule(c, at, map) ==
    IF at > Len(c.list)
    THEN IdleUpdate
    ELSE IF map[c.list[at]] # 0
         THEN [c EXCEPT !.pc = "cancel", !.at = at,
                        !.found = [id \in NotifiedIds |->
                                      IF id = c.list[at] THEN map[id] ELSE 0]]
         ELSE [c EXCEPT !.pc = "schedule", !.at = at,
                        !.found = [id \in NotifiedIds |-> 0]]

\* updateScheduleNotifications(schedules) up to the await of
\* cancelAllScheduleNotifications: every cancelScheduleNotification has read
\* its notification id from the map
updateScheduleNotifications(u, list) ==
    /\ updateCalls[u].pc = "idle"
    /\ isInitialized
    /\ updateCalls' = [updateCalls EXCEPT ![u] =
            [pc |-> "cancelAll", list |-> list, at |-> 0, found |-> scheduledNotifications]]
    /\ UNCHANGED <<isInitialized, scheduledNotifications, osScheduled, notificationsIssued>>
    /\ UNCHANGED <<notifyOthers, envVars>>

\* the cancels of cancelAllScheduleNotifications settle: the ids read are
\* cancelled with the OS and their schedules deleted from the map; the loop
\* over the active schedules begins
CancelAllDone(u) ==
    /\ updateCalls[u].pc = "cancelAll"
    /\ osScheduled' = osCancel(osScheduled, {updateCalls[u].found[id] : id \in NotifiedIds})
    /\ scheduledNotifications' = deleteFound(scheduledNotifications, updateCalls[u].found)
    /\ updateCalls' = [updateCalls EXCEPT ![u] =
            enterSchedule(updateCalls[u], 1, scheduledNotifications')]
    /\ UNCHANGED <<isInitialized, notificationsIssued>>
    /\ UNCHANGED <<notifyOthers, envVars>>

\* the cancel inside scheduleNotification settles, and the OS is asked to
\* schedule the new notification
ScheduleCancelDone(u) ==
    /\ updateCalls[u].pc = "cancel"
    /\ osScheduled' = osCancel(osScheduled, {updateCalls[u].found[id] : id \in NotifiedIds})
    /\ scheduledNotifications' = deleteFound(scheduledNotifications, updateCalls[u].found)
    /\ updateCalls' = [updateCalls EXCEPT ![u].pc = "schedule"]
    /\ UNCHANGED <<isInitialized, notificationsIssued>>
    /\ UNCHANGED <<notifyOthers, envVars>>

\* scheduleNotificationAsync settles: the new id is stored for the schedule;
\* a failure is logged and the loop goes on with the next schedule
ScheduleDone(u, ok) ==
    /\ updateCalls[u].pc = "schedule"
    /\ IF ok
       THEN /\ notificationsIssued < MaxNotifications
            /\ notificationsIssued' = notificationsIssued + 1
            /\ osScheduled' = osScheduled \cup
                    {[nid |-> notificationsIssued + 1,
                      scheduleId |-> updateCalls[u].list[updateCalls[u].at]]}
            /\ scheduledNotifications' =
                    [scheduledNotifications EXCEPT
                        ![updateCalls[u].list[updateCalls[u].at]] = notificationsIssued + 1]
       ELSE UNCHANGED <<notificationsIssued, osScheduled, scheduledNotifications>>
    /\ updateCalls' = [updateCalls EXCEPT ![u] =
            enterSchedule(updateCalls[u], updateCalls[u].at + 1, scheduledNotifications')]
    /\ UNCHANGED isInitialized
    /\ UNCHANGED <<notifyOthers, envVars>>

\* the OS delivers a pending notification
NotificationDelivered(n) ==
    /\ n \in osScheduled
    /\ osScheduled' = osScheduled \ {n}
    /\ UNCHANGED <<isInitialized, scheduledNotifications, notificationsIssued, updateCalls>>
    /\ UNCHANGED <<notifyOthers, envVars>>

PendingNotifications == [nid : 1..MaxNotifications, scheduleId : NotifiedIds]

NotifyNext ==
    \/ notificationInitialize
    \/ \E u \in 1..MaxUpdates, list \in ActiveLists : updateScheduleNotifications(u, list)
    \/ \E u \in 1..MaxUpdates : CancelAllDone(u)
    \/ \E u \in 1..MaxUpdates : ScheduleCancelDone(u)
    \/ \E u \in 1..MaxUpdates, ok \in BOOLEAN : ScheduleDone(u, ok)
    \/ \E n \in PendingNotifications : NotificationDelivered(n)

NotifyStart == ReconIdle /\ ServiceInit

SpecNotify == NotifyStart /\ [][NotifyNext]_vars

\* C33: for every schedule id at most one OS notification is pending, and it
\* is the one recorded in scheduledNotifications, also when calls of
\* updateScheduleNotifications overlap.
C33_PendingNotificationsOnRecord ==
    \A n \in osScheduled : scheduledNotifications[n.scheduleId] = n.nid

\* the ids on record are ids the OS handed out
RecordedWereIssued == \A id \in NotifiedIds : scheduledNotifications[id] <= notificationsIssued

\* C35: in the native continuous scan a detected result is dispatched only
\* after its record was persisted (so a failed persist dispatches nothing),
\* and a result without detection is dispatched with no record persisted.
C35_DispatchFollowsPersist ==
    [][ (platform = "native" /\ lastDispatch' # lastDispatch)
          => lastDispatch'.record = IF lastDispatch'.result.detected
                                    THEN scanRecord(lastDispatch'.result)
                                    ELSE NoRecord ]_vars

\* a detection was persisted and dispatched to a callback
C35_Witness ==
    /\ platform = "native"
    /\ lastDispatch.result.detected
    /\ lastDispatch.record = scanRecord(lastDispatch.result)
    /\ Len(lastDispatch.received) > 0

(***************************************************************************)
(* usePestDetection backed by the service (src/unnamed/part_004 and        *)
(* part_005): startScanning and stopScanning register the hook's callback  *)
(* and call the service; the cleanup of the mount effect is meant to stop  *)
(* the scan on unmount.  The service is loaded.                            *)
(***************************************************************************)
backedOthers == <<scannerVars, chainVars, scheduleVars, monitorVars, mqttVars, notifyVars,
                  analyzeVars>>

\* the hook's callback
handleDetection == "cb1"

BackedMount ==
    /\ ~backedMounted
    /\ backedMounted' = TRUE
    /\ backedIsScanning' = FALSE
    /\ UNCHANGED <<loadVars, scanVars, envVars, reconVars, vars2, hookVars, backedOthers>>

\* startScanning: setIsScanning(true), addDetectionCallback(handleDetection),
\* startContinuousScanning up to its first await
backedStartScanning(withRef) ==
    /\ backedMounted
    /\ backedIsScanning' = TRUE
    /\ detectionCallbacks' =
          IF InList(detectionCallbacks, handleDetection) THEN detectionCallbacks
          ELSE Append(detectionCallbacks, handleDetection)
    /\ IF isScanning
       THEN UNCHANGED <<cameraRef, initializationPromise, initProcs, starts>>
       ELSE /\ HasFreePc(starts)
            /\ cameraRef' = IF withRef THEN "ref" ELSE cameraRef
            /\ initializeTensorFlow
            /\ starts' = [starts EXCEPT ![FreePc(starts)] = InitAwaitPc]
    /\ UNCHANGED <<tfInitialized, model, labels, modelLoadPromise, loadProcs, loadsStarted>>
    /\ UNCHANGED <<isScanning, isProcessing, scanningInterval, liveTimers, scanTensors, iters,
                   lastDispatch>>
    /\ UNCHANGED <<backedMounted, envVars, reconVars, vars2, hookVars, backedOthers>>

\* the service's stopContinuousScanning as called by the hook: it returns at
\* once when the service is not scanning
stopIfScanning ==
    IF isScanning
    THEN /\ isScanning' = FALSE
         /\ isProcessing' = FALSE
         /\ liveTimers' = liveTimers \ stopClears
         /\ scanningInterval' = 0
         /\ cameraRef' = "null"
    ELSE UNCHANGED <<isScanning, isProcessing, liveTimers, scanningInterval, cameraRef>>

\* stopScanning: setIsScanning(false), removeDetectionCallback(handleDetection),
\* stopContinuousScanning
backedStopScanning ==
    /\ backedMounted
    /\ backedIsScanning' = FALSE
    /\ detectionCallbacks' = Without(detectionCallbacks, handleDetection)
    /\ stopIfScanning
    /\ UNCHANGED <<starts, scanTensors, iters, lastDispatch>>
    /\ UNCHANGED <<backedMounted, loadVars, envVars, reconVars, vars2, hookVars, backedOthers>>

\* the isScanning the cleanup of the mount effect reads: the effect depends on
\* refreshData only, which never changes, so the cleanup is the one created in
\* the first render, where the state is false
cleanupIsScanning == FALSE

\* the component unmounts: the cleanup calls stopScanning when the isScanning
\* it reads is true
BackedUnmount ==
    /\ backedMounted
    /\ backedMounted' = FALSE
    /\ IF cleanupIsScanning
       THEN /\ backedIsScanning' = FALSE
            /\ detectionCallbacks' = Without(detectionCallbacks, handleDetection)
            /\ stopIfScanning
       ELSE UNCHANGED <<backedIsScanning, detectionCallbacks, isScanning, isProcessing,
                        liveTimers, scanningInterval, cameraRef>>
    /\ UNCHANGED <<starts, scanTensors, iters, lastDispatch>>
    /\ UNCHANGED <<loadVars, envVars, reconVars, vars2, hookVars, backedOthers>>

BackedNext ==
    \/ BackedMount
    \/ \E withRef \in BOOLEAN : backedStartScanning(withRef)
    \/ backedStopScanning
    \/ BackedUnmount
    \/ \E s \in 1..MaxStarts : StartAfterInit(s)
    \/ \E s \in 1..MaxStarts : StartAfterLoad(s)
    \/ ScanStep({{}})

BackedStart == ReconIdle /\ EnvInit /\ LoadedState /\ IdleScanState /\ Init2 /\ HookInit /\ AppInit

SpecBacked == BackedStart /\ [][BackedNext]_vars

\* C37: when the component unmounts while continuous scanning is active, the
\* cleanup stops the service's scan (timer cancelled, service idle) and
\* removes the hook's detection callback.
C37_UnmountStopsScan ==
    [][ (backedMounted /\ ~backedMounted' /\ backedIsScanning /\ isScanning)
          => /\ ~isScanning'
             /\ scanningInterval' = 0
             /\ liveTimers' = liveTimers \ stopClears
             /\ ~InList(detectionCallbacks', handleDetection) ]_vars

\* the part of C37 that holds: the hook's own stopScanning does all of that
StopScanningStopsScan ==
    [][ (backedMounted /\ backedMounted' /\ backedIsScanning /\ ~backedIsScanning')
          => /\ ~isScanning'
             /\ scanningInterval' = 0
             /\ liveTimers' = liveTimers \ stopClears
             /\ ~InList(detectionCallbacks', handleDetection) ]_vars

(***************************************************************************)
(* analyzeImage: the result it returns and the record it adds to storage,  *)
(* for the three variants in the repository.                               *)
(***************************************************************************)
analyzeOthers == <<loadVars, scanVars, vars2, hookVars, scannerVars, chainVars, scheduleVars,
                   monitorVars, mqttVars, notifyVars, backedVars>>

\* the PestDetection record: the fields taken from a result
detectionOf(result) == [pestType |-> result.pestType, confidence |-> result.confidence]

\* analyzeImage of src/services/PestDetectionService.ts (first class)
analyzeImage(scores, lbls) ==
    LET result == aiDetection(scores, lbls)
    IN  [result |-> result,
         stored |-> IF result.detected THEN <<detectionOf(result)>> ELSE <<>>]

\* analyzeImage of src/unnamed/part_002: the result is built from the remote
\* predictions, the record from the local aiDetection
remoteAnalyzeImage(detections, scores, lbls) ==
    LET result == remoteAnalyzeResult(detections)
        results == aiDetection(scores, lbls)
    IN  [result |-> result,
         stored |-> IF result.detected /\ result.pestType # EmptyString /\ results.detected
                    THEN <<detectionOf(results)>> ELSE <<>>]

\* a call that returns: addPestDetection, when it is called, succeeded
Returns(op, outcome) ==
    /\ rOp' = op
    /\ rResult' = outcome.result
    /\ rStored' = outcome.stored
    /\ rRecs' = <<>>
    /\ rBoxes' = <<>>
    /\ UNCHANGED <<rScores, rLabels, rDetections, rSpecies>>
    /\ UNCHANGED <<analyzeOthers, envVars>>

ApplyAnalyzeImage ==
    /\ rOp = "none"
    /\ Returns("analyzeImage", analyzeImage(rScores, rLabels))

\* the variant of the second class returns the same verdict and record
ApplyAnalyzeImage2 ==
    /\ rOp = "none"
    /\ Returns("analyzeImage2", analyzeImage(rScores, rLabels))

ApplyRemoteAnalyzeImage ==
    /\ rOp = "none"
    /\ Returns("remoteAnalyzeImage", remoteAnalyzeImage(rDetections, rScores, rLabels))

\* addPestDetection rejects: analyzeImage throws, nothing is returned or stored
AnalyzeThrows ==
    /\ rOp = "none"
    /\ \/ analyzeImage(rScores, rLabels).stored # <<>>
       \/ remoteAnalyzeImage(rDetections, rScores, rLabels).stored # <<>>
    /\ rOp' = "threw"
    /\ UNCHANGED <<rResult, rStored, rRecs, rBoxes, rScores, rLabels, rDetections, rSpecies>>
    /\ UNCHANGED <<analyzeOthers, envVars>>

AnalyzeNext ==
    \/ ApplyAnalyzeImage
    \/ ApplyAnalyzeImage2
    \/ ApplyRemoteAnalyzeImage
    \/ AnalyzeThrows

AnalyzeInputs ==
    /\ rLabels \in LabelLists
    /\ rScores \in SeqsUpTo(ScoreVals, MaxAnalyzeLen)
    /\ rDetections \in RemoteLists
    /\ rSpecies = NullSpecies
    /\ rOp = "none"
    /\ rResult = NoResult
    /\ rRecs = <<>>
    /\ rBoxes = <<>>

AnalyzeStart == AnalyzeInputs /\ ServiceInit

SpecAnalyze == AnalyzeStart /\ [][AnalyzeNext]_vars

AnalyzeOps == {"analyzeImage", "analyzeImage2", "remoteAnalyzeImage"}

\* C34: analyzeImage adds exactly one record when the result it returns has
\* detected = true, with the result's pestType and confidence, and none when
\* the result has detected = false.
C34_RecordMatchesReturnedResult ==
    rOp \in AnalyzeOps =>
        rStored = IF rResult.detected THEN <<detectionOf(rResult)>> ELSE <<>>

\* the part of C34 that holds: the two variants that classify locally
LocalAnalyzeRecordMatches ==
    rOp \in {"analyzeImage", "analyzeImage2"} =>
        rStored = IF rResult.detected THEN <<detectionOf(rResult)>> ELSE <<>>

ReconStart == ReconInit /\ ServiceInit

SpecRecon == ReconStart /\ [][ReconNext]_vars

(***************************************************************************)
(* Termination and sharing of initializeTensorFlow                         *)
(***************************************************************************)
\* the callers of initializeTensorFlow (startContinuousScanning, loadModel)
\* and the progress of the sequences they start
InitializeNext ==
    \/ ControlStep
    \/ LoadStep

SpecInitialize == Init /\ [][InitializeNext]_vars

\* the library promises an attempt awaits settle, and the timer of the wait
\* between two attempts fires
SpecInitializeFair ==
    /\ SpecInitialize
    /\ WF_vars(\E i \in 1..MaxProcs, ok \in BOOLEAN : InitAttemptDone(i, ok))
    /\ WF_vars(\E i \in 1..MaxProcs : InitBackoffDone(i))

\* the initialization sequences that are running
RunningSequences == {i \in 1..MaxProcs : initProcs[i].pc # "idle"}

\* the attempts begun by the first n bodies of initializeTensorFlow
RECURSIVE AttemptsUpTo(_)
AttemptsUpTo(n) ==
    IF n = 0 THEN 0 ELSE initProcs[n].attempts + AttemptsUpTo(n - 1)

\* the callers suspended at their await of initializeTensorFlow
InitWaiters ==
    Cardinality({k \in DOMAIN starts : starts[k] = "awaitInit"})
        + Cardinality({l \in DOMAIN loadProcs : loadProcs[l] = "awaitInit"})

\* C38: on native, initializeTensorFlow terminates: a sequence makes at most
\* 3 attempts and then resolves or rejects; callers arriving while a sequence
\* runs share it, so that concurrent callers never cause more than 3 attempts
\* in total.
C38_InitializationTerminates ==
    /\ [](platform = "native"
            => /\ Cardinality(RunningSequences) <= 1
               /\ AttemptsUpTo(MaxProcs) <= 3)
    /\ ((platform = "native" /\ initializationPromise = "pending")
            ~> initializationPromise # "pending")

\* two callers wait on one sequence that is in its third attempt
C38_Witness ==
    /\ platform = "native"
    /\ \E i \in RunningSequences : initProcs[i].pc = "attempt" /\ initProcs[i].attempts = 3
    /\ InitWaiters >= 2

====
